---- MODULE Spec2Model ----
(***************************************************************************)
(* A model of simx (iliana/simx): the entity store of src/src/lib.rs and   *)
(* src/src/database.rs, the entity checks of team.rs and game.rs, and the  *)
(* per-game state machine of src/src/sim.rs.                               *)
(*                                                                         *)
(* Identifiers (UUIDs) are naturals, 0 being the nil UUID.  Option<T> is   *)
(* a sequence of length 0 (None) or 1 (Some).  Player attributes are only  *)
(* inputs of the probability thresholds of the roll_* functions, and are   *)
(* not carried: the result of each comparison of a draw with such a        *)
(* threshold is an input of the tick (a Roll), while the draw itself is    *)
(* read from the generator, which every tick advances.  The two steal      *)
(* thresholds are constants and are compared exactly.  Strings built by    *)
(* format! are records (kind, who, n).  Game::runs_by_inning, the team's   *)
(* location and nickname are never written by the code and are left out.   *)
(* The build is the debug build: arithmetic that overflows panics, and     *)
(* debug_check runs.                                                       *)
(***************************************************************************)
EXTENDS Integers, Sequences, FiniteSets, TLC

VARIABLES
    players,      \* Database::players : BTreeMap<PlayerId, Player>
    teams,        \* Database::teams : BTreeMap<TeamId, Team>
    date,         \* Database::date
    games_today,  \* Database::games_today : Vec<Game>
    last,         \* the last call on the Sim and what it returned
    panicked,     \* "" or the message of the panic that ended the program
    calls_left,   \* how many more calls the driver makes on the Sim
    rng,          \* Sim::rng : Rng
    seed,         \* the arguments of Rng::seeded that built rng, None for Rng::new
    twin          \* a second Sim that is given the same calls as this one, or None

vars == <<players, teams, date, games_today, last, panicked, calls_left, rng, seed, twin>>

----------------------------------------------------------------------------
\* Bounds of the model.

\* Player ids the driver supplies are 0..MaxPlayerId (0 is nil).
MaxPlayerId == 2
\* The players of the league have the ids 1..MaxLeagueId; the driver of a
\* season supplies the id above them.
MaxLeagueId == 5
\* Team ids the driver supplies are 0..MaxTeamId (0 is nil).
MaxTeamId == 2
\* Dates the driver supplies are days 1..MaxDay (a new Sim is at day 0).
MaxDay == 1
\* Game ids the driver supplies are 0..MaxGameId (0 is nil).
MaxGameId == 1
\* Calls the driver makes on a Sim that starts empty.
MaxCalls == 5
\* Sim::tick calls the driver makes on a day with one new game.
MaxTicksGame == 5
\* Sim::tick calls the driver makes on a day with one game in progress.
MaxTicksLate == 3
\* Sim::tick calls the driver makes on a day with two games.
MaxTicksDay == 2
\* Sim::tick calls the driver makes on a day with three games.
MaxTicksCaught == 1
\* Games in progress start in innings LAST_INNING - 1 .. LAST_INNING + MaxExtraInnings.
MaxExtraInnings == 1
\* Games in progress start with 0..MaxStartRuns runs a side.
MaxStartRuns == 1
\* Ticks of a day of SpecRuns.
MaxTicksRuns == 4

----------------------------------------------------------------------------
\* Program constants.

NilId == 0
BALLS_NEEDED == 4
STRIKES_NEEDED == 3
OUTS_NEEDED == 3
HOME_BASE == 4
\* u16::MAX: the width of GameTeam::runs.
U16_MAX == 65535
\* u8::MAX: the width of balls, strikes, outs and of the base of a runner.
U8_MAX == 255
\* usize::MAX = 2^64 - 1: the width of GameTeam::lineup_slot, of
\* Team::rotation_slot and of the number of an Inning.  The integers of TLC
\* are 32 bits wide, so a usize is carried by the integer that is congruent
\* to it modulo 2^64 and lies in -2^31 .. 2^31 - 1 (two's complement): the
\* values up to 2^31 - 1 are themselves, and usize::MAX is -1.  A usize
\* that is carried by a negative integer is above every length and every
\* inning number it is compared with.
USIZE_MAX == -1
\* The panic of an integer that overflows, in a debug build.
Overflow == "attempt to add with overflow"
\* Game over is decided in inning 9 or later.
LAST_INNING == 9
\* RNG draws of Player::generate_with_name: 26 attributes and 6 choose calls.
GENERATE_DRAWS == 32

----------------------------------------------------------------------------
\* Option<T>, Vec<T>, BTreeMap<K, V>.

None == <<>>
Some(x) == <<x>>
IsSome(o) == o # <<>>

Range(s) == {s[i] : i \in 1..Len(s)}

Max(S) == CHOOSE x \in S : \A y \in S : y <= x

RECURSIVE SortedSeq(_)
\* The elements of a finite set of naturals in ascending order (the order in
\* which a BTreeMap is iterated).
SortedSeq(S) ==
    IF S = {} THEN <<>>
    ELSE LET m == CHOOSE x \in S : \A y \in S : x <= y
         IN  <<m>> \o SortedSeq(S \ {m})

RECURSIVE Flatten(_)
Flatten(ss) == IF ss = <<>> THEN <<>> ELSE Head(ss) \o Flatten(Tail(ss))

InsertAlone(map, key, value) == (key :> value)

\* BTreeMap::insert
Insert(map, key, value) == (key :> value) @@ map

\* Vec::remove(idx), idx from 1.
RemoveAt(s, idx) == [i \in 1..(Len(s) - 1) |-> IF i < idx THEN s[i] ELSE s[i + 1]]

\* Iterator::position, from 0; -1 when absent.
Position(s, x) ==
    IF x \in Range(s) THEN (CHOOSE i \in 1..Len(s) : s[i] = x /\ \A j \in 1..(i - 1) : s[j] # x) - 1
    ELSE -1

----------------------------------------------------------------------------
\* Entities.

Player(id) == [id |-> id]

Team(id, lineup, rotation, shadows, rotation_slot) ==
    [id |-> id, lineup |-> lineup, rotation |-> rotation, shadows |-> shadows,
     rotation_slot |-> rotation_slot]

Inning(frame, n) == [frame |-> frame, n |-> n]

\* impl Default for Inning
DefaultInning == Inning("Top", 0)

Update(kind, who, n) == [kind |-> kind, who |-> who, n |-> n]

\* String::default()
NoUpdate == Update("", NilId, 0)

\* GameTeam::default() with the given team id.
GameTeam(id) == [id |-> id, runs |-> 0, pitcher |-> None, lineup_slot |-> 0]

\* Game::default()
DefaultGame ==
    [id |-> NilId, winner |-> None, last_update |-> NoUpdate,
     away |-> GameTeam(NilId), home |-> GameTeam(NilId),
     inning |-> DefaultInning, at_bat |-> None,
     balls |-> 0, strikes |-> 0, outs |-> 0, baserunners |-> <<>>]

\* Game::new, with the GameId it generates.
GameNew(id, away, home) ==
    [DefaultGame EXCEPT !.id = id, !.away = GameTeam(away), !.home = GameTeam(home)]

\* Game::is_finished
IsFinished(game) == IsSome(game.winner)

\* Game::bases_occupied
BasesOccupied(game) == {game.baserunners[i][2] : i \in 1..Len(game.baserunners)}

Database(ps, ts, d, gs) == [players |-> ps, teams |-> ts, date |-> d, games_today |-> gs]

Db == Database(players, teams, date, games_today)

----------------------------------------------------------------------------
\* DatabaseError and CheckEntity.

NilIdError == [err |-> "NilId", kind |-> "", id |-> NilId]
BadReference(kind, id) == [err |-> "BadReference", kind |-> kind, id |-> id]
DuplicatePlayer(id) == [err |-> "DuplicatePlayer", kind |-> "player", id |-> id]

\* impl CheckEntity for Player: the id must not be nil (Sim::add_player's
\* documented error).
PlayerProblems(player, db) == IF player.id = NilId THEN <<NilIdError>> ELSE <<>>

Roster(team) == team.lineup \o team.rotation \o team.shadows

Count(s, x) == Cardinality({i \in 1..Len(s) : s[i] = x})

RECURSIVE Orders(_)
\* The orders a HashMap can iterate in: every sequence that lists each
\* element of the set once.
Orders(S) ==
    IF S = {} THEN {<<>>}
    ELSE UNION {{<<x>> \o o : o \in Orders(S \ {x})} : x \in S}

\* The body of the loop of Team::problems for one roster entry.
RosterProblems(team, db, player) ==
    (IF player \notin DOMAIN db.players
     THEN <<BadReference("player", player)>> ELSE <<>>)
    \o (IF Count(Roster(team), player) > 1
        THEN <<DuplicatePlayer(player)>> ELSE <<>>)

TeamProblemsNoDuplicates(team, db) ==
    LET Missing(player) == IF player \notin DOMAIN db.players
                           THEN <<BadReference("player", player)>> ELSE <<>>
        found == {player \in Range(Roster(team)) : Missing(player) # <<>>}
    IN  {(IF team.id = NilId THEN <<NilIdError>> ELSE <<>>)
         \o Flatten([i \in 1..Len(o) |-> Missing(o[i])])
           : o \in Orders(found)}

\* impl CheckEntity for Team: the set of the vectors problems() can return.
\* The roster is counted in a HashMap, whose iteration order is not fixed, so
\* the players that have a problem come in any order (those that have none
\* push nothing).
TeamProblems(team, db) ==
    LET found == {player \in Range(Roster(team)) : RosterProblems(team, db, player) # <<>>}
    IN  {(IF team.id = NilId THEN <<NilIdError>> ELSE <<>>)
         \o Flatten([i \in 1..Len(o) |-> RosterProblems(team, db, o[i])])
           : o \in Orders(found)}

GameTeamRefs(game) == game.winner \o <<game.away.id, game.home.id>>

GamePlayerRefs(game) ==
    game.at_bat
    \o [i \in 1..Len(game.baserunners) |-> game.baserunners[i][1]]
    \o game.away.pitcher \o game.home.pitcher

\* impl CheckEntity for Game
GameProblems(game, db) ==
    (IF game.id = NilId THEN <<NilIdError>> ELSE <<>>)
    \o Flatten([i \in 1..Len(GameTeamRefs(game)) |->
        IF GameTeamRefs(game)[i] \notin DOMAIN db.teams
        THEN <<BadReference("team", GameTeamRefs(game)[i])>> ELSE <<>>])
    \o Flatten([i \in 1..Len(GamePlayerRefs(game)) |->
        IF GamePlayerRefs(game)[i] \notin DOMAIN db.players
        THEN <<BadReference("player", GamePlayerRefs(game)[i])>> ELSE <<>>])

\* CheckEntity::check: the first problem, if any.
Check(problems) == IF problems = <<>> THEN None ELSE Some(Head(problems))

\* One line of Database::check_consistency.
Line(kind, id, what) == [kind |-> kind, id |-> id, what |-> what]

KeyCheck(map, kind) ==
    Flatten([i \in 1..Cardinality(DOMAIN map) |->
        LET key == SortedSeq(DOMAIN map)[i]
        IN  IF map[key].id # key
            THEN <<Line(kind, map[key].id, [err |-> "keyed", kind |-> "", id |-> key])>>
            ELSE <<>>])

ProblemLines(kind, id, problems) == [i \in 1..Len(problems) |-> Line(kind, id, problems[i])]

RECURSIVE TeamLines(_, _)
\* The lines of the teams of keys, in that order: one vector for every order
\* Team::problems can report each team's problems in.
TeamLines(keys, db) ==
    IF keys = <<>> THEN {<<>>}
    ELSE LET t == db.teams[Head(keys)]
         IN  {ProblemLines("team", t.id, found) \o rest
                : found \in TeamProblems(t, db), rest \in TeamLines(Tail(keys), db)}

\* The problems vector of Database::check_consistency: every problem found,
\* in the order of the code; the set of the vectors it can be.
Problems(db) ==
    {KeyCheck(db.teams, "team")
     \o KeyCheck(db.players, "player")
     \o lines
     \o Flatten([i \in 1..Cardinality(DOMAIN db.players) |->
         LET p == db.players[SortedSeq(DOMAIN db.players)[i]]
         IN  ProblemLines("player", p.id, PlayerProblems(p, db))])
     \o Flatten([i \in 1..Len(db.games_today) |->
         ProblemLines("game", db.games_today[i].id, GameProblems(db.games_today[i], db))])
       : lines \in TeamLines(SortedSeq(DOMAIN db.teams), db)}

CheckConsistencyFirstOnly(db) ==
    {IF found = <<>> THEN <<>> ELSE <<Head(found)>> : found \in Problems(db)}

\* Database::check_consistency: <<>> is Ok(()), otherwise the lines of the
\* Err string (problems.join("\n")); the set of the results it can give.
CheckConsistency(db) == Problems(db)

\* Database::debug_check (debug_assert_eq!): the panic of a debug build.
DebugCheck(db) == IF CheckConsistency(db) = {<<>>} THEN "" ELSE "debug_check"

----------------------------------------------------------------------------
\* Inning (game.rs) and TeamSelect: "away" / "home" name the field of the game.

\* Inning::advance: [inning, panic].  `n + 1` overflows the usize at
\* End(usize::MAX), and the inning is left as it was.
Advance(inning) ==
    CASE inning.frame = "Top" -> [inning |-> Inning("Mid", inning.n), panic |-> ""]
      [] inning.frame = "Mid" -> [inning |-> Inning("Bottom", inning.n), panic |-> ""]
      [] inning.frame = "Bottom" -> [inning |-> Inning("End", inning.n), panic |-> ""]
      [] inning.frame = "End" ->
            IF inning.n = USIZE_MAX THEN [inning |-> inning, panic |-> Overflow]
            ELSE [inning |-> Inning("Top", inning.n + 1), panic |-> ""]

\* Inning::batting
Batting(inning) == IF inning.frame \in {"Top", "Mid"} THEN "away" ELSE "home"

\* Inning::fielding
Fielding(inning) == IF inning.frame \in {"Top", "Mid"} THEN "home" ELSE "away"

----------------------------------------------------------------------------
\* src/src/rng.rs: XorShift128+.  A u64 is the set of the positions of its
\* set bits (bit 0 the least significant), so that the shifts and the
\* exclusive or keep all 64 bits.

WORD_BITS == 64
BATCH == 64

Shl(w, n) == {i + n : i \in {j \in w : j + n < WORD_BITS}}
Shr(w, n) == {i - n : i \in {j \in w : j >= n}}
Xor(a, b) == (a \ b) \cup (b \ a)

\* the bits of the mantissa of an f64, and 0x3ff0_0000_0000_0000: the sign
\* and exponent of the doubles of [1, 2)
MantissaBits == 0..51
ONE_BITS == 52..61

NextWordOtherShift(state) ==
    LET s1 == state[1]
        s0 == state[2]
        a == Xor(s1, Shl(s1, 23))
        b == Xor(a, Shr(a, 17))
        c == Xor(b, s0)
        d == Xor(c, Shr(s0, 27))
    IN  [state |-> <<s0, d>>, word |-> Shr(s0, 12)]

\* the closure `next` of next_buf: one step of the generator
NextWord(state) ==
    LET s1 == state[1]
        s0 == state[2]
        a == Xor(s1, Shl(s1, 23))
        b == Xor(a, Shr(a, 17))
        c == Xor(b, s0)
        d == Xor(c, Shr(s0, 26))
    IN  [state |-> <<s0, d>>, word |-> Shr(s0, 12)]

RECURSIVE NextBufFrom(_, _)
\* std::array::from_fn in next_buf: the words are generated in index order
NextBufFrom(state, buf) ==
    IF Len(buf) = BATCH THEN [state |-> state, buf |-> buf]
    ELSE LET n == NextWord(state)
         IN  NextBufFrom(n.state, Append(buf, n.word))

\* next_buf
NextBuf(state) == NextBufFrom(state, <<>>)

\* An Rng: state, and the IntoIter as the sequence of its elements not yet
\* yielded; only next_back and nth_back are ever called on it, so these
\* are a prefix of the array it was made from.
RngOf(state, iter) == [state |-> state, iter |-> iter]

\* IntoIter::as_slice
AsSlice(r) == r.iter

\* IntoIter::nth_back(n), for what it leaves in the iterator
NthBack(iter, n) == SubSeq(iter, 1, Len(iter) - (n + 1))

\* Rng::seeded
Seeded(s0, s1) ==
    LET b == NextBuf(<<s0, s1>>)
    IN  RngOf(b.state, b.buf)

\* f64::from_bits(w | 0x3ff0_0000_0000_0000) - 1.0: `hi` is the sign and
\* exponent of the double built, `frac` its mantissa; when hi = ONE_BITS
\* the value returned is frac / 2^52 exactly.
F64(w) == [hi |-> (w \cup ONE_BITS) \ MantissaBits, frac |-> w \cap MantissaBits]

\* Rng::next_f64
NextF64(r) ==
    IF Len(r.iter) > 0
    THEN [rng |-> RngOf(r.state, NthBack(r.iter, 0)), draw |-> F64(r.iter[Len(r.iter)])]
    ELSE LET b == NextBuf(r.state)
         IN  [rng |-> RngOf(b.state, NthBack(b.buf, 0)), draw |-> F64(b.buf[Len(b.buf)])]

RECURSIVE Sum(_, _)
\* a + b, for naturals of any size given by their set bits
Sum(a, b) == IF b = {} THEN a ELSE Sum(Xor(a, b), {i + 1 : i \in a \cap b})

RECURSIVE Times(_, _)
\* a * n, n a natural number
Times(a, n) ==
    IF n = 0 THEN {}
    ELSE LET rest == Times({i + 1 : i \in a}, n \div 2)
         IN  IF n % 2 = 1 THEN Sum(a, rest) ELSE rest

\* the rounding of a product of two doubles to 53 significant bits, ties to
\* even
RoundF64(p) ==
    IF p = {} \/ Max(p \cup {0}) <= 52 THEN p
    ELSE LET s == Max(p) - 52
             q == {i - s : i \in {j \in p : j >= s}}
             rem == {j \in p : j < s}
             up == (s - 1) \in rem /\ (rem # {s - 1} \/ 0 \in q)
             q2 == IF up THEN Sum(q, {0}) ELSE q
         IN  {i + s : i \in q2}

RECURSIVE Value(_)
Value(bits) == IF bits = {} THEN 0 ELSE LET i == Max(bits) IN 2^i + Value(bits \ {i})

\* (draw * len).floor() as usize, draw = frac / 2^52
FloorTimes(frac, len) ==
    Value({i - 52 : i \in {j \in RoundF64(Times(frac, len)) : j >= 52}})

\* choices.nth((draw * len).floor() as usize), the choices being their
\* positions 0..len-1.  A draw of [0, 1) has hi = ONE_BITS.  A word that is
\* not below 2^52 (one read from a document) gives another double: with bit
\* 62 the exponent is all ones, and the draw is an infinity (no mantissa
\* bit) or a NaN; with bit 63 alone it is negative.  The cast saturates: the
\* index is usize::MAX for +inf, beyond every position, and 0 for a NaN
\* (+inf * 0 included) and for a negative product.
Nth(draw, len) ==
    IF draw.hi = ONE_BITS
    THEN LET n == FloorTimes(draw.frac, len)
         IN  IF n < len THEN Some(n) ELSE None
    ELSE IF draw.hi = ONE_BITS \cup {62} /\ draw.frac = {} /\ len > 0 THEN None
    ELSE IF len > 0 THEN Some(0) ELSE None

\* Rng::choose over an iterator of len items, the items being their
\* positions 0..len-1: `item` is choices.nth(n)
Choose(r, len) ==
    LET d == NextF64(r)
    IN  [rng |-> d.rng, item |-> Nth(d.draw, len), draw |-> d.draw]

\* serialize_iter
SerializeIter(r) == AsSlice(r)

\* #[derive(Serialize)] of Rng
SerializeRng(r) == [state |-> r.state, iter |-> SerializeIter(r)]

DeserializeIterNoSkip(v) ==
    LET len == IF Len(v) < BATCH THEN Len(v) ELSE BATCH
    IN  [i \in 1..BATCH |-> IF i <= len THEN v[i] ELSE {}]

\* deserialize_iter: the words of the document are copied to the front of
\* an array of zeros, and the zeros left are dropped from the back
DeserializeIter(v) ==
    LET len == IF Len(v) < BATCH THEN Len(v) ELSE BATCH
        buf == [i \in 1..BATCH |-> IF i <= len THEN v[i] ELSE {}]
    IN  IF BATCH - len >= 1 THEN NthBack(buf, BATCH - len - 1) ELSE buf

\* #[derive(Deserialize)] of Rng
DeserializeRng(doc) == RngOf(doc.state, DeserializeIter(doc.iter))

RECURSIVE Skip(_, _)
\* The generator after n more calls of next_f64: each takes the last word of
\* the iterator, and the call that finds it empty takes the last word of a
\* new batch.
Skip(r, n) ==
    IF n = 0 THEN r
    ELSE IF n <= Len(r.iter) THEN RngOf(r.state, NthBack(r.iter, n - 1))
    ELSE LET b == NextBuf(r.state)
         IN  Skip(RngOf(b.state, NthBack(b.buf, 0)), n - Len(r.iter) - 1)

\* draw < bound, the `rng.next_f64() < threshold` of a threshold of (0, 1)
\* that is bound / 2^52.  A draw of [0, 1) has hi = ONE_BITS and is
\* frac / 2^52.  A word that is not below 2^52 (one read from a document)
\* gives another double: with bit 63 and not bit 62 it is negative, and
\* below; with bit 62 it is an infinity (no mantissa bit), below when
\* negative, or a NaN, which is below nothing.  (Of two naturals given by
\* their set bits, the greater holds the highest bit in which they differ.)
Below(draw, bound) ==
    IF draw.hi = ONE_BITS
    THEN draw.frac # bound /\ Max(Xor(draw.frac, bound)) \in bound
    ELSE 63 \in draw.hi /\ (62 \notin draw.hi \/ draw.frac = {})

----------------------------------------------------------------------------
\* Game::tick and its handlers (sim.rs).

\* What one Game::tick yields: the game, the teams and players of the
\* database, the update string, the number of RNG draws, and the panic message
\* ("" when the call returns).
Outcome(game, ts, ps, update, draws, panic) ==
    [game |-> game, teams |-> ts, players |-> ps, update |-> update,
     draws |-> draws, panic |-> panic]

FreshPlayerIdCollides(ps, uuid) ==
    Max(DOMAIN ps \cup {MaxPlayerId, MaxLeagueId + 1}) + 1 - uuid

\* PlayerId::new(): a random UUID, from Uuid::new_v4 and not from the Rng.
\* uuid stands for the random bits: the id is the one that lies uuid above
\* the least id over every id in use and every id a driver supplies: the
\* ids up to MaxPlayerId, and the one above the ids of the league.
FreshPlayerId(ps, uuid) ==
    Max(DOMAIN ps \cup {MaxPlayerId, MaxLeagueId + 1}) + 1 + uuid

GameOverSideAfterNine(game) ==
    LET n == game.inning.n
        f == game.inning.frame
        late == n < 0 \/ n > LAST_INNING
    IN  CASE f \in {"Mid", "End"} /\ game.away.runs < game.home.runs /\ late -> "home"
          [] f = "End" /\ game.away.runs > game.home.runs /\ late -> "away"
          [] OTHER -> ""

\* The match of Game::handle_game_over: the side that has won, "" if none.
GameOverSide(game) ==
    LET n == game.inning.n
        f == game.inning.frame
        late == n < 0 \/ n >= LAST_INNING
    IN  CASE f \in {"Mid", "End"} /\ game.away.runs < game.home.runs /\ late -> "home"
          [] f = "End" /\ game.away.runs > game.home.runs /\ late -> "away"
          [] OTHER -> ""

\* Game::handle_game_over: over = Break, with the winner set and the
\* rotation_slot of the away team, then of the home team, advanced (twice for
\* a team that plays itself).  load_mut panics at the first of the two that
\* is not in the store, and `rotation_slot += 1` at the first that stands at
\* usize::MAX, with what was written before it: the winner, and the cursor
\* of the away team if it is the home team's that fails.
HandleGameOver(game, ts) ==
    LET sel == GameOverSide(game)
        won == [game EXCEPT !.winner = Some(game[sel].id)]
        Res(t, panic) == [over |-> TRUE, game |-> won, teams |-> t, panic |-> panic]
        Started(t, id) == [t EXCEPT ![id].rotation_slot = @ + 1]
        Failure(t, id) ==
            IF id \notin DOMAIN t THEN "TeamId not found"
            ELSE IF t[id].rotation_slot = USIZE_MAX THEN Overflow
            ELSE ""
    IN  IF sel = "" THEN [over |-> FALSE, game |-> game, teams |-> ts, panic |-> ""]
        ELSE IF Failure(ts, game.away.id) # "" THEN Res(ts, Failure(ts, game.away.id))
        ELSE LET ts1 == Started(ts, game.away.id)
             IN  IF Failure(ts1, game.home.id) # ""
                 THEN Res(ts1, Failure(ts1, game.home.id))
                 ELSE Res(Started(ts1, game.home.id), "")

NextInOrderKeepsPos(current, team_id, pos, field, ts, ps, uuid) ==
    IF IsSome(current)
    THEN [fresh |-> FALSE, player |-> current[1], pos |-> pos, teams |-> ts,
          players |-> ps, draws |-> 0, panic |-> ""]
    ELSE IF team_id \notin DOMAIN ts
    THEN [fresh |-> FALSE, player |-> NilId, pos |-> pos, teams |-> ts,
          players |-> ps, draws |-> 0, panic |-> "TeamId not found"]
    ELSE LET order == ts[team_id][field]
         IN  IF order # <<>>
             THEN LET player == IF 0 <= pos /\ pos < Len(order) THEN order[pos + 1]
                                ELSE order[1]
                  IN  [fresh |-> TRUE, player |-> player, pos |-> pos,
                       teams |-> ts, players |-> ps, draws |-> 0, panic |-> ""]
             ELSE LET player == FreshPlayerId(ps, uuid)
                      ts1 == [ts EXCEPT ![team_id][field] = Append(@, player)]
                  IN  [fresh |-> TRUE, player |-> player,
                       pos |-> pos,
                       teams |-> ts1, players |-> Insert(ps, player, Player(player)),
                       draws |-> GENERATE_DRAWS, panic |-> ""]

\* next_in_order!: the player who is `current`, or else the next one of the
\* team's `field` ("rotation" or "lineup") at cursor pos.  fresh = Break.
\* A team with an empty order gets a player from Player::generate_with_name,
\* which reads GENERATE_DRAWS draws, under the id that PlayerId::new gives.
NextInOrder(current, team_id, pos, field, ts, ps, uuid) ==
    IF IsSome(current)
    THEN [fresh |-> FALSE, player |-> current[1], pos |-> pos, teams |-> ts,
          players |-> ps, draws |-> 0, panic |-> ""]
    ELSE IF team_id \notin DOMAIN ts
    THEN [fresh |-> FALSE, player |-> NilId, pos |-> pos, teams |-> ts,
          players |-> ps, draws |-> 0, panic |-> "TeamId not found"]
    ELSE LET order == ts[team_id][field]
         IN  IF order # <<>>
             THEN LET player == IF 0 <= pos /\ pos < Len(order) THEN order[pos + 1]
                                ELSE order[1]
                  IN  [fresh |-> TRUE, player |-> player, pos |-> Position(order, player),
                       teams |-> ts, players |-> ps, draws |-> 0, panic |-> ""]
             ELSE LET player == FreshPlayerId(ps, uuid)
                      ts1 == [ts EXCEPT ![team_id][field] = Append(@, player)]
                  IN  [fresh |-> TRUE, player |-> player,
                       pos |-> Position(ts1[team_id][field], player),
                       teams |-> ts1, players |-> Insert(ps, player, Player(player)),
                       draws |-> GENERATE_DRAWS, panic |-> ""]

\* Game::get_pitcher: the fielding side's pitcher; the cursor is the team's
\* rotation_slot, read and written only when the side has no pitcher.
GetPitcher(game, ts, ps, uuid) ==
    LET sel == Fielding(game.inning)
        id == game[sel].id
        pos == IF id \in DOMAIN ts THEN ts[id].rotation_slot ELSE 0
        r == NextInOrder(game[sel].pitcher, id, pos, "rotation", ts, ps, uuid)
    IN  IF r.panic # "" \/ ~r.fresh
        THEN [r EXCEPT !.pos = 0] @@ [game |-> game]
        ELSE [r EXCEPT !.teams = [r.teams EXCEPT ![id].rotation_slot = r.pos]]
             @@ [game |-> [game EXCEPT ![sel].pitcher = Some(r.player)]]

GetBatterResetsCount(game, ts, ps, uuid) ==
    LET sel == Batting(game.inning)
        r == NextInOrder(game.at_bat, game[sel].id, game[sel].lineup_slot, "lineup", ts, ps,
                         uuid)
    IN  IF r.panic # "" \/ ~r.fresh
        THEN r @@ [game |-> game]
        ELSE [r EXCEPT !.panic = IF r.player \in DOMAIN r.players THEN ""
                                 ELSE "PlayerId not found"]
             @@ [game |-> [game EXCEPT !.at_bat = Some(r.player),
                                       ![sel].lineup_slot = r.pos,
                                       !.balls = 0, !.strikes = 0]]

\* Game::get_batter: the batter; the cursor is the batting side's lineup_slot.
\* A batter who was just resolved is written to at_bat, and the cursor to
\* lineup_slot; then the batter is loaded for the announcement, which panics
\* when the lineup names a player who is not in the store.
GetBatter(game, ts, ps, uuid) ==
    LET sel == Batting(game.inning)
        r == NextInOrder(game.at_bat, game[sel].id, game[sel].lineup_slot, "lineup", ts, ps,
                         uuid)
    IN  IF r.panic # "" \/ ~r.fresh
        THEN r @@ [game |-> game]
        ELSE [r EXCEPT !.panic = IF r.player \in DOMAIN r.players THEN ""
                                 ELSE "PlayerId not found"]
             @@ [game |-> [game EXCEPT !.at_bat = Some(r.player),
                                       ![sel].lineup_slot = r.pos]]

HandleOutKeepsCount(game) ==
    IF game.outs + 1 > U8_MAX THEN [game |-> game, panic |-> Overflow]
    ELSE IF game.outs + 1 >= OUTS_NEEDED
    THEN LET sel == Batting(game.inning)
             g1 == [game EXCEPT !.outs = 0, !.at_bat = None]
             a == Advance(game.inning)
         IN  IF game[sel].lineup_slot = USIZE_MAX THEN [game |-> g1, panic |-> Overflow]
             ELSE [game |-> [g1 EXCEPT ![sel].lineup_slot = @ + 1,
                                       !.baserunners = <<>>,
                                       !.inning = a.inning],
                   panic |-> a.panic]
    ELSE [game |-> [game EXCEPT !.outs = @ + 1], panic |-> ""]

\* Game::handle_out: [game, panic].  `self.outs += 1` overflows the u8 (the
\* panic of a debug build) before anything is written.  At the third out the
\* count, the outs and the batter are cleared, then `lineup_slot += 1`
\* overflows the usize at usize::MAX, with the runners still on base and the
\* inning as it was; then the bases are emptied and the inning advances,
\* which overflows at End(usize::MAX).
HandleOut(game) ==
    IF game.outs + 1 > U8_MAX THEN [game |-> game, panic |-> Overflow]
    ELSE IF game.outs + 1 >= OUTS_NEEDED
    THEN LET sel == Batting(game.inning)
             g1 == [game EXCEPT !.balls = 0, !.strikes = 0, !.outs = 0, !.at_bat = None]
             a == Advance(game.inning)
         IN  IF game[sel].lineup_slot = USIZE_MAX THEN [game |-> g1, panic |-> Overflow]
             ELSE [game |-> [g1 EXCEPT ![sel].lineup_slot = @ + 1,
                                       !.baserunners = <<>>,
                                       !.inning = a.inning],
                   panic |-> a.panic]
    ELSE [game |-> [game EXCEPT !.outs = @ + 1], panic |-> ""]

\* Game::handle_strike: [game, update, panic].  `self.strikes += 1` overflows
\* the u8 with the game as it was; a panic of handle_out leaves the strike
\* counted; after handle_out the batter is cleared and `lineup_slot += 1`, on
\* the side that bats in the inning as handle_out left it, overflows the
\* usize at usize::MAX.
HandleStrike(game, batter, kind) ==
    IF game.strikes + 1 > U8_MAX
    THEN [game |-> game, update |-> NoUpdate, panic |-> Overflow]
    ELSE IF game.strikes + 1 >= STRIKES_NEEDED
    THEN LET o == HandleOut([game EXCEPT !.strikes = @ + 1])
             g1 == [o.game EXCEPT !.at_bat = None]
             sel == Batting(g1.inning)
         IN  IF o.panic # ""
             THEN [game |-> o.game, update |-> NoUpdate, panic |-> o.panic]
             ELSE IF g1[sel].lineup_slot = USIZE_MAX
             THEN [game |-> g1, update |-> NoUpdate, panic |-> Overflow]
             ELSE [game |-> [g1 EXCEPT ![sel].lineup_slot = @ + 1],
                   update |-> Update(IF kind = "looking" THEN "strikes out looking"
                                     ELSE "strikes out swinging", batter, 0),
                   panic |-> ""]
    ELSE [game |-> [game EXCEPT !.strikes = @ + 1],
          update |-> Update(IF kind = "looking" THEN "Strike, looking"
                            ELSE "Strike, swinging", batter, 0),
          panic |-> ""]

\* no runner looked at yet
NoRunners == [kept |-> <<>>, scored |-> <<>>, panic |-> ""]

RECURSIVE ScoreRunners(_, _, _, _, _)
\* The loop over the runners of handle_ball and of handle_base_hit, runner k
\* moving steps[k] bases: [kept, scored, panic].  It stops at the first
\* panic: the base overflows its u8, `runs += 1` overflows the u16 total
\* (runs at the start of the loop), or runner.load fails for a player who
\* is not in the store, whose run is counted by then.
ScoreRunners(runners, steps, runs, ps, acc) ==
    IF runners = <<>> THEN acc
    ELSE LET runner == Head(runners)[1]
             base == Head(runners)[2] + Head(steps)
         IN  IF base > U8_MAX THEN [acc EXCEPT !.panic = Overflow]
             ELSE IF base < HOME_BASE
             THEN ScoreRunners(Tail(runners), Tail(steps), runs, ps,
                               [acc EXCEPT !.kept = Append(@, <<runner, base>>)])
             ELSE IF runs + Len(acc.scored) + 1 > U16_MAX
             THEN [acc EXCEPT !.panic = Overflow]
             ELSE IF runner \notin DOMAIN ps
             THEN [acc EXCEPT !.scored = Append(@, runner), !.panic = "PlayerId not found"]
             ELSE ScoreRunners(Tail(runners), Tail(steps), runs, ps,
                               [acc EXCEPT !.scored = Append(@, runner)])

HandleBallAnyBehind(game, batter, ps) ==
    IF game.balls + 1 > U8_MAX
    THEN [game |-> game, update |-> NoUpdate, panic |-> Overflow]
    ELSE IF game.balls + 1 >= BALLS_NEEDED
    THEN LET occupied == BasesOccupied(game)
             runners == game.baserunners
             steps == [k \in 1..Len(runners) |->
                         IF \E b \in 1..(runners[k][2] - 1) : b \in occupied
                         THEN 1 ELSE 0]
             sel == Batting(game.inning)
             r == ScoreRunners(runners, steps, game[sel].runs, ps, NoRunners)
             g1 == [game EXCEPT !.balls = @ + 1,
                                ![sel].runs = @ + Len(r.scored),
                                !.baserunners = r.kept]
             g2 == [g1 EXCEPT !.baserunners = Append(r.kept, <<batter, 1>>),
                              !.at_bat = None]
         IN  IF r.panic # ""
             THEN [game |-> g1, update |-> NoUpdate, panic |-> r.panic]
             ELSE IF g2[sel].lineup_slot = USIZE_MAX
             THEN [game |-> g2, update |-> NoUpdate, panic |-> Overflow]
             ELSE [game |-> [g2 EXCEPT ![sel].lineup_slot = @ + 1],
                   update |-> Update("draws a walk", batter, 0),
                   panic |-> ""]
    ELSE [game |-> [game EXCEPT !.balls = @ + 1],
          update |-> Update("Ball", batter, 0),
          panic |-> ""]

\* Game::handle_ball: [game, update, panic].  `self.balls += 1` overflows the
\* u8 with the game as it was; a panic of the loop over the runners leaves
\* the runners it has kept and the runs it has counted; after the loop the
\* batter is put on first and cleared, and `lineup_slot += 1` overflows the
\* usize at usize::MAX.
HandleBall(game, batter, ps) ==
    IF game.balls + 1 > U8_MAX
    THEN [game |-> game, update |-> NoUpdate, panic |-> Overflow]
    ELSE IF game.balls + 1 >= BALLS_NEEDED
    THEN LET occupied == BasesOccupied(game)
             runners == game.baserunners
             steps == [k \in 1..Len(runners) |->
                         IF \A b \in 1..(runners[k][2] - 1) : b \in occupied
                         THEN 1 ELSE 0]
             sel == Batting(game.inning)
             r == ScoreRunners(runners, steps, game[sel].runs, ps, NoRunners)
             g1 == [game EXCEPT !.balls = @ + 1,
                                ![sel].runs = @ + Len(r.scored),
                                !.baserunners = r.kept]
             g2 == [g1 EXCEPT !.baserunners = Append(r.kept, <<batter, 1>>),
                              !.at_bat = None]
         IN  IF r.panic # ""
             THEN [game |-> g1, update |-> NoUpdate, panic |-> r.panic]
             ELSE IF g2[sel].lineup_slot = USIZE_MAX
             THEN [game |-> g2, update |-> NoUpdate, panic |-> Overflow]
             ELSE [game |-> [g2 EXCEPT ![sel].lineup_slot = @ + 1],
                   update |-> Update("draws a walk", batter, 0),
                   panic |-> ""]
    ELSE [game |-> [game EXCEPT !.balls = @ + 1],
          update |-> Update("Ball", batter, 0),
          panic |-> ""]

\* Game::handle_home_run: [game, update, panic]; `runs += runs` overflows the
\* u16 total (the panic of a debug build) after the bases were emptied.
HandleHomeRun(game, batter) ==
    LET runs == Len(game.baserunners)
        sel == Batting(game.inning)
    IN  IF game[sel].runs + runs > U16_MAX
        THEN [game |-> [game EXCEPT !.baserunners = <<>>],
              update |-> NoUpdate, panic |-> Overflow]
        ELSE [game |-> [game EXCEPT !.baserunners = <<>>, ![sel].runs = @ + runs],
              update |-> IF runs = 1 THEN Update("solo home run", batter, runs)
                         ELSE Update("n-run home run", batter, runs),
              panic |-> ""]

HandleBaseHitOneBase(game, batter, ps, bases) ==
    LET runners == game.baserunners
        sel == Batting(game.inning)
        r == ScoreRunners(runners, [k \in 1..Len(runners) |-> 1], game[sel].runs, ps,
                          NoRunners)
    IN  [game |-> [game EXCEPT !.baserunners = r.kept, ![sel].runs = @ + Len(r.scored)],
         update |-> IF r.panic # "" THEN NoUpdate ELSE Update("hits", batter, bases),
         panic |-> r.panic]

\* Game::handle_base_hit: [game, update, panic]; a panic of the loop over the
\* runners leaves the runners it has kept and the runs it has counted.
HandleBaseHit(game, batter, ps, bases) ==
    LET runners == game.baserunners
        sel == Batting(game.inning)
        r == ScoreRunners(runners, [k \in 1..Len(runners) |-> bases], game[sel].runs, ps,
                          NoRunners)
    IN  [game |-> [game EXCEPT !.baserunners = r.kept, ![sel].runs = @ + Len(r.scored)],
         update |-> IF r.panic # "" THEN NoUpdate ELSE Update("hits", batter, bases),
         panic |-> r.panic]

\* Game::roll_fielder: [player, draws, panic].  The fielding team is loaded
\* ("TeamId not found"), rng.choose takes one draw and yields a player of
\* the lineup ("lineup was empty" when it yields none: the lineup is empty,
\* or the word, one read from a document, is not below 2^52), and that
\* player is loaded ("PlayerId not found").
RollFielder(game, ts, ps, gen) ==
    LET id == game[Fielding(game.inning)].id
        Res(player, draws, panic) == [player |-> player, draws |-> draws, panic |-> panic]
        Fielder(f) == Res(f, 1, IF f \in DOMAIN ps THEN "" ELSE "PlayerId not found")
        Chosen(item) ==
            IF item = None THEN Res(NilId, 1, "lineup was empty")
            ELSE Fielder(ts[id].lineup[item[1] + 1])
    IN  IF id \notin DOMAIN ts THEN Res(NilId, 0, "TeamId not found")
        ELSE Chosen(Choose(gen, Len(ts[id].lineup)).item)

\* `attempt_roll < 0.02`: 0.02 is the double 5764607523034235 / 2^58, and a
\* draw frac / 2^52 is below it exactly when frac < 90071992547410, the
\* number with these bits.
STEAL_ATTEMPT ==
    {1, 4, 6, 11, 12, 13, 15, 17, 18, 19, 20, 24, 26, 31, 32, 33, 35, 37, 38, 39, 40, 44, 46}

\* `success_roll < 0.5`: frac < 2^51.
STEAL_SUCCESS == {51}

RECURSIVE StealFrom(_, _, _, _, _, _)
\* The loop of Game::handle_steal from runner i on: gen is the generator and
\* draws the number of draws of handle_steal so far; occupied are the bases
\* that were occupied before the loop.  The loop panics at a runner whose
\* base + 1 overflows the u8, or who may attempt and is not in the store.  A
\* runner whose next base is free reads the attempt roll, and one who
\* attempts reads the success roll and ends the loop: the base is stolen, or
\* the runner is removed and handle_out called.
StealFrom(game, ps, occupied, i, gen, draws) ==
    LET runners == game.baserunners
        Res(brk, g, update, n, panic) ==
            [brk |-> brk, game |-> g, update |-> update, draws |-> n, panic |-> panic]
    IN  IF i > Len(runners) THEN Res(FALSE, game, NoUpdate, draws, "")
        ELSE IF runners[i][2] + 1 > U8_MAX THEN Res(TRUE, game, NoUpdate, draws, Overflow)
        ELSE IF (runners[i][2] + 1) \in occupied
        THEN StealFrom(game, ps, occupied, i + 1, gen, draws)
        ELSE IF runners[i][1] \notin DOMAIN ps
        THEN Res(TRUE, game, NoUpdate, draws, "PlayerId not found")
        ELSE LET attempt_roll == NextF64(gen)
                 success_roll == NextF64(attempt_roll.rng)
             IN  IF ~Below(attempt_roll.draw, STEAL_ATTEMPT)
                 THEN StealFrom(game, ps, occupied, i + 1, attempt_roll.rng, draws + 1)
                 ELSE IF Below(success_roll.draw, STEAL_SUCCESS)
                 THEN Res(TRUE, [game EXCEPT !.baserunners[i][2] = @ + 1],
                          Update("steals", runners[i][1], runners[i][2] + 1), draws + 2, "")
                 ELSE LET o == HandleOut([game EXCEPT !.baserunners = RemoveAt(@, i)])
                      IN  Res(TRUE, o.game,
                              IF o.panic # "" THEN NoUpdate
                              ELSE Update("caught stealing", runners[i][1],
                                          runners[i][2] + 1),
                              draws + 2, o.panic)

HandleStealAnyBase(game, ts, ps, gen) ==
    LET Runners(f) ==
            IF f.panic # ""
            THEN [brk |-> TRUE, game |-> game, update |-> NoUpdate, draws |-> f.draws,
                  panic |-> f.panic]
            ELSE StealFrom(game, ps, {}, 1, Skip(gen, f.draws), f.draws)
    IN  Runners(RollFielder(game, ts, ps, gen))

\* Game::handle_steal: [brk, game, update, draws, panic]; brk = Break.  A
\* fielder is rolled first (and not used), then the runners are gone through
\* in the order of the list.
HandleSteal(game, ts, ps, gen) ==
    LET Runners(f) ==
            IF f.panic # ""
            THEN [brk |-> TRUE, game |-> game, update |-> NoUpdate, draws |-> f.draws,
                  panic |-> f.panic]
            ELSE StealFrom(game, ps, BasesOccupied(game), 1, Skip(gen, f.draws), f.draws)
    IN  Runners(RollFielder(game, ts, ps, gen))

\* The comparisons of a draw with a threshold that a pitch can make, by the
\* function that makes them (roll_base_hit makes two).  The thresholds are
\* computed from the attributes of the players, which the model does not
\* carry: a Roll says how each comparison falls.
Roll(strike, swing, contact, foul, out, flyout, home_run, triple, double) ==
    [strike |-> strike, swing |-> swing, contact |-> contact, foul |-> foul, out |-> out,
     flyout |-> flyout, home_run |-> home_run, triple |-> triple, double |-> double]

\* The ways the comparisons of one pitch can fall; a comparison that is not
\* made is listed as FALSE.
Rolls ==
    {Roll(strike, FALSE, FALSE, FALSE, FALSE, FALSE, FALSE, FALSE, FALSE)
        : strike \in BOOLEAN}
    \cup {Roll(strike, TRUE, FALSE, FALSE, FALSE, FALSE, FALSE, FALSE, FALSE)
            : strike \in BOOLEAN}
    \cup {Roll(strike, TRUE, TRUE, TRUE, FALSE, FALSE, FALSE, FALSE, FALSE)
            : strike \in BOOLEAN}
    \cup {Roll(strike, TRUE, TRUE, FALSE, TRUE, flyout, FALSE, FALSE, FALSE)
            : strike \in BOOLEAN, flyout \in BOOLEAN}
    \cup {Roll(strike, TRUE, TRUE, FALSE, FALSE, FALSE, TRUE, FALSE, FALSE)
            : strike \in BOOLEAN}
    \cup {Roll(strike, TRUE, TRUE, FALSE, FALSE, FALSE, FALSE, triple, double)
            : strike \in BOOLEAN, triple \in BOOLEAN, double \in BOOLEAN}

\* roll_base_hit: the bases of the hit
RollBaseHit(roll) == IF roll.triple THEN 3 ELSE IF roll.double THEN 2 ELSE 1

\* The thresholds that are capped: roll_strike at 0.86, roll_swing at a ball
\* at 0.95 and roll_contact at a strike at 0.9.  A draw frac / 2^52 is below
\* the double 0.86 exactly when frac < 3873095679538627, below 0.95 when
\* frac < 4278419646001971 and below 0.9 when frac < 4053239664633447, the
\* numbers with these bits.
STRIKE_MAX ==
    {0, 1, 6, 7, 8, 10, 12, 13, 14, 15, 19, 21, 26, 27, 28, 30, 32, 33, 34, 35, 39, 41, 46,
     47, 48, 50, 51}
SWING_MAX ==
    {0, 1, 4, 5, 8, 9, 12, 13, 16, 17, 20, 21, 24, 25, 28, 29, 32, 33, 36, 37, 40, 41, 44,
     45, 48, 49, 50, 51}
CONTACT_MAX ==
    {0, 1, 2, 5, 6, 9, 10, 13, 14, 17, 18, 21, 22, 25, 26, 29, 30, 33, 34, 37, 38, 41, 42,
     45, 46, 49, 50, 51}

\* How the comparisons of a pitch fall with the generator gen: as roll says,
\* and below the cap where the threshold has one (`.min(0.86)`,
\* `.clamp(0.1, 0.95)`, `.min(0.9)`): no attributes make a draw that is not
\* below the cap fall below the threshold.
Falls(roll, gen) ==
    LET Capped(strike) ==
            [roll EXCEPT
                !.strike = strike,
                !.swing = @ /\ (strike \/ Below(NextF64(Skip(gen, 1)).draw, SWING_MAX)),
                !.contact = @ /\ (~strike \/ Below(NextF64(Skip(gen, 2)).draw, CONTACT_MAX))]
    IN  Capped(roll.strike /\ Below(NextF64(gen).draw, STRIKE_MAX))

PitchFoulIsStrike(game, ts, ps, batter, d, gen, rolled) ==
    LET YieldP(r, draws) == Outcome(r.game, ts, ps, r.update, draws, r.panic)
        Thrown(roll, fielder, defender) ==
            IF ~roll.swing
            THEN IF roll.strike THEN YieldP(HandleStrike(game, batter, "looking"), d + 2)
                 ELSE YieldP(HandleBall(game, batter, ps), d + 2)
            ELSE IF ~roll.contact THEN YieldP(HandleStrike(game, batter, "swinging"), d + 3)
            ELSE IF roll.foul
            THEN IF game.strikes + 1 > U8_MAX
                 THEN Outcome(game, ts, ps, NoUpdate, d + 4, Overflow)
                 ELSE Outcome([game EXCEPT !.strikes = @ + 1], ts, ps,
                              Update("Foul Ball", NilId, 0), d + 4, "")
            ELSE IF fielder.panic # ""
            THEN Outcome(game, ts, ps, NoUpdate, d + 4 + fielder.draws, fielder.panic)
            ELSE IF roll.out
            THEN Outcome(game, ts, ps,
                         Update(IF roll.flyout THEN "flyout" ELSE "ground out", batter,
                                fielder.player),
                         d + 7, "")
            ELSE IF roll.home_run THEN YieldP(HandleHomeRun(game, batter), d + 7)
            ELSE IF defender.panic # ""
            THEN Outcome(game, ts, ps, NoUpdate, d + 7 + defender.draws, defender.panic)
            ELSE YieldP(HandleBaseHit(game, batter, ps, RollBaseHit(roll)), d + 10)
    IN  Thrown(Falls(rolled, gen), RollFielder(game, ts, ps, Skip(gen, 4)),
               RollFielder(game, ts, ps, Skip(gen, 7)))

\* The pitch of Game::tick (lines 82-119), after no steal was attempted: d
\* draws were read so far in the tick, gen is the generator now, and roll says
\* how the comparisons fall.  The draws are read in this order: roll_strike,
\* roll_swing (2 so far), roll_contact (3), roll_foul (4), roll_fielder (5),
\* roll_out (6), roll_flyout or roll_home_run (7), roll_fielder (8),
\* roll_base_hit (10).  `2.min(self.strikes + 1)` overflows the u8 on a foul.
Pitch(game, ts, ps, batter, d, gen, rolled) ==
    LET YieldP(r, draws) == Outcome(r.game, ts, ps, r.update, draws, r.panic)
        Thrown(roll, fielder, defender) ==
            IF ~roll.swing
            THEN IF roll.strike THEN YieldP(HandleStrike(game, batter, "looking"), d + 2)
                 ELSE YieldP(HandleBall(game, batter, ps), d + 2)
            ELSE IF ~roll.contact THEN YieldP(HandleStrike(game, batter, "swinging"), d + 3)
            ELSE IF roll.foul
            THEN IF game.strikes + 1 > U8_MAX
                 THEN Outcome(game, ts, ps, NoUpdate, d + 4, Overflow)
                 ELSE Outcome([game EXCEPT !.strikes = IF @ + 1 < 2 THEN @ + 1 ELSE 2],
                              ts, ps, Update("Foul Ball", NilId, 0), d + 4, "")
            ELSE IF fielder.panic # ""
            THEN Outcome(game, ts, ps, NoUpdate, d + 4 + fielder.draws, fielder.panic)
            ELSE IF roll.out
            THEN Outcome(game, ts, ps,
                         Update(IF roll.flyout THEN "flyout" ELSE "ground out", batter,
                                fielder.player),
                         d + 7, "")
            ELSE IF roll.home_run THEN YieldP(HandleHomeRun(game, batter), d + 7)
            ELSE IF defender.panic # ""
            THEN Outcome(game, ts, ps, NoUpdate, d + 7 + defender.draws, defender.panic)
            ELSE YieldP(HandleBaseHit(game, batter, ps, RollBaseHit(roll)), d + 10)
    IN  Thrown(Falls(rolled, gen), RollFielder(game, ts, ps, Skip(gen, 4)),
               RollFielder(game, ts, ps, Skip(gen, 7)))

PlayBallByAdvance(game, db) ==
    Outcome([game EXCEPT !.inning = Advance(game.inning).inning], db.teams, db.players,
            Update("Play ball!", NilId, 0), 0, "")

\* Game::tick, lines 58-61: the first tick of a game.
PlayBall(game, db) ==
    Outcome([game EXCEPT !.inning = Inning("Top", 1)], db.teams, db.players,
            Update("Play ball!", NilId, 0), 0, "")

NextHalfSkips(game, db) ==
    LET a == Advance(Advance(game.inning).inning)
        id == game[Batting(a.inning)].id
    IN  IF a.panic # "" THEN Outcome(game, db.teams, db.players, NoUpdate, 0, a.panic)
        ELSE Outcome([game EXCEPT !.inning = a.inning], db.teams, db.players,
                     Update(IF a.inning.frame = "Top" THEN "Top of" ELSE "Bottom of", id,
                            a.inning.n),
                     0, IF id \in DOMAIN db.teams THEN "" ELSE "TeamId not found")

\* Game::tick, lines 62-74: the tick of a game at Mid or End.  The inning
\* advances, which overflows at End(usize::MAX) with the game as it was, and
\* the team that bats next is loaded for the update.
NextHalf(game, db) ==
    LET a == Advance(game.inning)
        id == game[Batting(a.inning)].id
    IN  IF a.panic # "" THEN Outcome(game, db.teams, db.players, NoUpdate, 0, a.panic)
        ELSE Outcome([game EXCEPT !.inning = a.inning], db.teams, db.players,
                     Update(IF a.inning.frame = "Top" THEN "Top of" ELSE "Bottom of", id,
                            a.inning.n),
                     0, IF id \in DOMAIN db.teams THEN "" ELSE "TeamId not found")

\* Game::tick, lines 76-119: the tick of a game at Top or Bottom.  gen is
\* the generator at the start of the tick; the draws of a generated pitcher
\* and batter come first, then those of handle_steal, then the pitch.
AtBat(game, db, gen, roll, uuid) ==
    LET AfterSteal(b, d, s) ==
            IF s.brk
            THEN Outcome(s.game, b.teams, b.players, s.update, d + s.draws, s.panic)
            ELSE Pitch(s.game, b.teams, b.players, b.player, d + s.draws,
                       Skip(gen, d + s.draws), roll)
        AfterBatter(p, b, d) ==
            IF b.panic # ""
            THEN Outcome(b.game, b.teams, b.players, NoUpdate, d, b.panic)
            ELSE IF b.fresh
            THEN Outcome(b.game, b.teams, b.players,
                         Update("batting for", b.player, b.game[Batting(b.game.inning)].id),
                         d, "")
            ELSE IF p.player \notin DOMAIN b.players \/ b.player \notin DOMAIN b.players
            THEN Outcome(b.game, b.teams, b.players, NoUpdate, d, "PlayerId not found")
            ELSE AfterSteal(b, d, HandleSteal(b.game, b.teams, b.players, Skip(gen, d)))
        WithBatter(p, b) == AfterBatter(p, b, p.draws + b.draws)
        AfterPitcher(p) ==
            IF p.panic # ""
            THEN Outcome(p.game, p.teams, p.players, NoUpdate, p.draws, p.panic)
            ELSE WithBatter(p, GetBatter(p.game, p.teams, p.players, uuid))
    IN  AfterPitcher(GetPitcher(game, db.teams, db.players, uuid))

\* Game::tick: what it yields with the generator gen, the comparisons of the
\* pitch falling as roll says and PlayerId::new giving the ids of uuid.
GameTick(game, db, gen, roll, uuid) ==
    LET over == HandleGameOver(game, db.teams)
    IN  IF over.over
        THEN Outcome(over.game, over.teams, db.players,
                     Update("Game over", NilId, 0), 0, over.panic)
        ELSE IF game.inning = DefaultInning THEN PlayBall(game, db)
        ELSE IF game.inning.frame \in {"Mid", "End"} THEN NextHalf(game, db)
        ELSE AtBat(game, db, gen, roll, uuid)

----------------------------------------------------------------------------
\* Sim (lib.rs, sim.rs).

\* What the last call returned.  op: the method; ok: Ok or Err (a tick
\* returns nothing); at: the index of the game whose check made start_day
\* fail; old_date, old_games: the value of start_day; visited, draws: the
\* indices of the games Sim::tick ran Game::tick on, in order, and the RNG
\* draws of each; detail: the lines of the error of a deserialization.
Call(op, ok) ==
    [op |-> op, ok |-> ok, at |-> 0, old_date |-> 0, old_games |-> <<>>,
     visited |-> <<>>, draws |-> <<>>, detail |-> <<>>]

RECURSIVE FirstProblem(_, _, _)
\* The loop of Sim::start_day from game i on: the index of the first game
\* that has a problem, 0 if none has.
FirstProblem(games, db, i) ==
    IF i > Len(games) THEN 0
    ELSE IF IsSome(Check(GameProblems(games[i], db))) THEN i
    ELSE FirstProblem(games, db, i + 1)

\* The start of the loop of Sim::tick: the games, teams and players, the
\* generator, the games visited and the draws of each, and the panic.  uuid:
\* what PlayerId::new gives in this tick.
TickStart(games, ts, ps, gen, uuid) ==
    [games |-> games, teams |-> ts, players |-> ps, rng |-> gen, uuid |-> uuid,
     visited |-> <<>>, draws |-> <<>>, panic |-> ""]

RECURSIVE TickGamesTakeFirst(_, _, _)
TickGamesTakeFirst(i, st, rolls) ==
    IF i > Len(st.games) THEN st
    ELSE IF IsFinished(st.games[i])
    THEN TickGamesTakeFirst(i + 1, [st EXCEPT !.games[i] = DefaultGame], rolls)
    ELSE LET PutBack(o) ==
                 [st EXCEPT !.teams = o.teams, !.players = o.players,
                            !.visited = Append(@, i), !.draws = Append(@, o.draws),
                            !.rng = Skip(@, o.draws), !.panic = o.panic,
                            !.games[i] = IF o.panic # "" THEN DefaultGame
                                         ELSE [o.game EXCEPT !.last_update = o.update]]
             Onward(st1) == IF st1.panic # "" THEN st1 ELSE TickGamesTakeFirst(i + 1, st1, rolls)
         IN  Onward(PutBack(GameTick(st.games[i],
                                     Database(st.players, st.teams, date, st.games),
                                     st.rng, rolls[i], st.uuid)))

RECURSIVE TickGamesAll(_, _, _)
TickGamesAll(i, st, rolls) ==
    IF i > Len(st.games) THEN st
    ELSE LET PutBack(o) ==
                 [st EXCEPT !.teams = o.teams, !.players = o.players,
                            !.visited = Append(@, i), !.draws = Append(@, o.draws),
                            !.rng = Skip(@, o.draws), !.panic = o.panic,
                            !.games[i] = IF o.panic # "" THEN DefaultGame
                                         ELSE [o.game EXCEPT !.last_update = o.update]]
             Onward(st1) == IF st1.panic # "" THEN st1 ELSE TickGamesAll(i + 1, st1, rolls)
         IN  Onward(PutBack(GameTick(st.games[i],
                                     Database(st.players, st.teams, date, st.games),
                                     st.rng, rolls[i], st.uuid)))

RECURSIVE TickGames(_, _, _)
\* The loop of Sim::tick from game i on, rolls[k] saying how the comparisons
\* of the pitch of game k fall.  A game that is not finished is taken out of
\* the list (std::mem::take leaves Game::default() in its place), ticked with
\* the generator as the games before it left it, and put back with its
\* update; a game whose tick panics is not put back, and the draws it read
\* before the panic are read.
TickGames(i, st, rolls) ==
    IF i > Len(st.games) THEN st
    ELSE IF IsFinished(st.games[i]) THEN TickGames(i + 1, st, rolls)
    ELSE LET PutBack(o) ==
                 [st EXCEPT !.teams = o.teams, !.players = o.players,
                            !.visited = Append(@, i), !.draws = Append(@, o.draws),
                            !.rng = Skip(@, o.draws), !.panic = o.panic,
                            !.games[i] = IF o.panic # "" THEN DefaultGame
                                         ELSE [o.game EXCEPT !.last_update = o.update]]
             Onward(st1) == IF st1.panic # "" THEN st1 ELSE TickGames(i + 1, st1, rolls)
         IN  Onward(PutBack(GameTick(st.games[i],
                                     Database(st.players, st.teams, date, st.games),
                                     st.rng, rolls[i], st.uuid)))

\* Sim::add_player
AddPlayer(player) ==
    /\ panicked = ""
    /\ calls_left > 0
    /\ LET err == Check(PlayerProblems(player, Db))
       IN  IF IsSome(err)
           THEN /\ last' = Call("add_player", FALSE)
                /\ UNCHANGED <<players, panicked>>
           ELSE /\ players' = Insert(players, player.id, player)
                /\ last' = Call("add_player", TRUE)
                /\ panicked' = DebugCheck(Database(players', teams, date, games_today))
    /\ calls_left' = calls_left - 1
    /\ UNCHANGED <<teams, date, games_today, rng, seed, twin>>

\* Sim::add_team
AddTeam(team) ==
    /\ panicked = ""
    /\ calls_left > 0
    /\ \E found \in TeamProblems(team, Db) :
       LET err == Check(found)
       IN  IF IsSome(err)
           THEN /\ last' = Call("add_team", FALSE)
                /\ UNCHANGED <<teams, panicked>>
           ELSE /\ teams' = Insert(teams, team.id, team)
                /\ last' = Call("add_team", TRUE)
                /\ panicked' = DebugCheck(Database(players, teams', date, games_today))
    /\ calls_left' = calls_left - 1
    /\ UNCHANGED <<players, date, games_today, rng, seed, twin>>

StartDayDateFirst(d, games) ==
    /\ panicked = ""
    /\ calls_left > 0
    /\ date' = d
    /\ LET at == FirstProblem(games, Db, 1)
       IN  IF at # 0
           THEN /\ last' = [Call("start_day", FALSE) EXCEPT !.at = at]
                /\ UNCHANGED games_today
           ELSE /\ games_today' = games
                /\ last' = [Call("start_day", TRUE) EXCEPT
                               !.old_date = date, !.old_games = games_today]
    /\ calls_left' = calls_left - 1
    /\ UNCHANGED <<players, teams, panicked, rng, seed, twin>>

StartDayReturnsNew(d, games) ==
    /\ panicked = ""
    /\ calls_left > 0
    /\ LET at == FirstProblem(games, Db, 1)
       IN  IF at # 0
           THEN /\ last' = [Call("start_day", FALSE) EXCEPT !.at = at]
                /\ UNCHANGED <<date, games_today>>
           ELSE /\ date' = d
                /\ games_today' = games
                /\ last' = [Call("start_day", TRUE) EXCEPT
                               !.old_date = d, !.old_games = games]
    /\ calls_left' = calls_left - 1
    /\ UNCHANGED <<players, teams, panicked, rng, seed, twin>>

\* Sim::start_day
StartDay(d, games) ==
    /\ panicked = ""
    /\ calls_left > 0
    /\ LET at == FirstProblem(games, Db, 1)
       IN  IF at # 0
           THEN /\ last' = [Call("start_day", FALSE) EXCEPT !.at = at]
                /\ UNCHANGED <<date, games_today>>
           ELSE /\ date' = d
                /\ games_today' = games
                /\ last' = [Call("start_day", TRUE) EXCEPT
                               !.old_date = date, !.old_games = games_today]
    /\ calls_left' = calls_left - 1
    /\ UNCHANGED <<players, teams, panicked, rng, seed, twin>>

\* deserialize_database (lib.rs), for a document that Database::deserialize
\* reads: the Sim it yields, or the error whose detail is the joined problems.
Deserialize(doc) ==
    /\ panicked = ""
    /\ calls_left > 0
    /\ \E detail \in CheckConsistency(doc) :
           IF detail # <<>>
           THEN /\ last' = [Call("deserialize", FALSE) EXCEPT !.detail = detail]
                /\ UNCHANGED <<players, teams, date, games_today>>
           ELSE /\ players' = doc.players
                /\ teams' = doc.teams
                /\ date' = doc.date
                /\ games_today' = doc.games_today
                /\ last' = Call("deserialize", TRUE)
    /\ calls_left' = calls_left - 1
    /\ UNCHANGED <<panicked, rng, seed, twin>>

\* A game whose tick can come to a pitch: it has no winner, it stands in a
\* half-inning and it has a batter.
CanPitch(game) ==
    game.winner = None /\ game.at_bat # None /\ game.inning.frame \in {"Top", "Bottom"}

\* The ways the comparisons of the pitches of one tick can fall, one Roll for
\* each game of the list; a game that cannot come to a pitch makes none.
RollsFor(games) ==
    {rolls \in [1..Len(games) -> Rolls] :
        \A i \in 1..Len(games) :
            ~CanPitch(games[i])
            => rolls[i] = Roll(FALSE, FALSE, FALSE, FALSE, FALSE, FALSE, FALSE, FALSE, FALSE)}

\* What the loop of Sim::tick leaves, st, is the Sim after the call; when no
\* game has panicked, debug_check runs.
TickEnd(st) ==
    /\ games_today' = st.games
    /\ teams' = st.teams
    /\ players' = st.players
    /\ rng' = st.rng
    /\ last' = [Call("tick", TRUE) EXCEPT !.visited = st.visited, !.draws = st.draws]
    /\ panicked' = IF st.panic # "" THEN st.panic
                   ELSE DebugCheck(Database(st.players, st.teams, date, st.games))

\* Sim::tick, the comparisons falling as rolls says: the loop over the games,
\* then debug_check.
TickOn(rolls) ==
    /\ panicked = ""
    /\ calls_left > 0
    /\ calls_left' = calls_left - 1
    /\ TickEnd(TickGames(1, TickStart(games_today, teams, players, rng, 0), rolls))
    /\ UNCHANGED <<date, seed>>

\* Sim::tick
Tick == \E rolls \in RollsFor(games_today) : TickOn(rolls) /\ UNCHANGED twin

----------------------------------------------------------------------------
\* The driver of a Sim that starts empty: the entities and days it supplies.

\* Rng::new(): the generator of Sim::new, seeded with the two words that
\* rand_state reads from the system's source of randomness.
New(state) == Seeded(state[1], state[2])

\* Values of rand_state.  TestState: 2935246629125674131 and
\* 766864515362452477, the seed of the test `sixpack`; its first draw below
\* 0.02 is draw 43.  StealState: 12831559454390823840 and
\* 5657810840143226330, whose draws 1 and 2 (from 0) are 0.0099... and
\* 0.227...: the first runner who may steal, in the first tick that reaches
\* handle_steal, attempts and is safe.  CaughtState: 14239767237012172490 and
\* 6021637161964044328, whose draws 1, 2, 4 and 5 are 0.002..., 0.729...,
\* 0.0002... and 0.620...: the first runner who may steal is caught, in
\* that tick and again in the next.  TrailState: 3180232059657388382 and
\* 10921071919902868400, whose draws 1, 2 and 3 are 0.489..., 0.0088... and
\* 0.207...: the first runner who may steal does not attempt, the second
\* attempts and is safe.
TestState ==
    <<{0, 1, 4, 7, 10, 12, 14, 15, 17, 20, 21, 24, 28, 29, 30, 31, 32, 38,
       40, 41, 42, 44, 50, 51, 52, 53, 55, 59, 61},
      {0, 2, 3, 4, 5, 6, 7, 8, 9, 12, 13, 14, 15, 16, 17, 18, 24, 26, 28,
       29, 31, 33, 34, 36, 37, 40, 41, 44, 45, 46, 50, 53, 55, 57, 59}>>
StealState ==
    <<{5, 7, 8, 9, 11, 13, 16, 18, 22, 24, 27, 28, 30, 31, 33, 34, 36, 38, 40, 41, 43, 44,
       46, 47, 49, 52, 57, 60, 61, 63},
      {1, 3, 4, 6, 7, 8, 10, 13, 14, 16, 17, 18, 20, 24, 26, 28, 31, 32, 33, 35, 36, 37,
       38, 39, 42, 44, 47, 50, 55, 57, 58, 59, 62}>>
CaughtState ==
    <<{1, 3, 6, 7, 9, 10, 11, 13, 16, 17, 19, 20, 22, 25, 26, 30, 32, 33, 35, 36, 38, 39,
       44, 46, 47, 48, 50, 51, 52, 55, 56, 58, 62, 63},
      {3, 5, 15, 19, 21, 24, 26, 30, 35, 36, 40, 41, 42, 45, 48, 52, 55, 56, 57, 60, 62}>>
TrailState ==
    <<{1, 2, 3, 4, 6, 8, 20, 21, 24, 25, 27, 29, 30, 32, 34, 36, 37, 42, 44, 45, 46, 49,
       53, 58, 59, 61},
      {4, 5, 7, 8, 9, 14, 15, 16, 18, 19, 22, 31, 34, 35, 40, 44, 45, 46, 48, 49, 50, 51,
       55, 56, 57, 58, 60, 63}>>

PlayerInputs == {Player(id) : id \in 0..MaxPlayerId}

\* Rosters (lineup, rotation, shadows): empty, a lineup of one, a lineup with
\* a rotation, a lineup with a bench, and the three ways of listing a player
\* twice.
Rosters ==
    {<<<<>>, <<>>, <<>>>>,
     <<<<1>>, <<>>, <<>>>>,
     <<<<1>>, <<MaxPlayerId>>, <<>>>>,
     <<<<MaxPlayerId>>, <<>>, <<1>>>>,
     <<<<1, 1>>, <<>>, <<>>>>,
     <<<<MaxPlayerId>>, <<MaxPlayerId>>, <<>>>>,
     <<<<>>, <<1>>, <<1>>>>}

TeamInputs ==
    {Team(id, r[1], r[2], r[3], 0) : id \in 0..MaxTeamId, r \in Rosters}

\* Games as Game::new makes them (the id 0 stands for a nil GameId), and games
\* whose public fields the driver has set.
FreshGames ==
    {GameNew(MaxGameId, away, MaxTeamId) : away \in 0..MaxTeamId}
    \cup {GameNew(id, 1, home) : id \in 0..MaxGameId, home \in {0, MaxTeamId}}

EditedGames ==
    LET g == GameNew(MaxGameId, 1, MaxTeamId)
    IN  {[g EXCEPT !.at_bat = Some(MaxPlayerId)],
         [g EXCEPT !.home.pitcher = Some(MaxPlayerId)],
         [g EXCEPT !.baserunners = <<<<MaxPlayerId, 1>>>>],
         [g EXCEPT !.winner = Some(MaxTeamId)]}

GameInputs == FreshGames \cup EditedGames

\* The second game of a list of two.
LaterGames ==
    {GameNew(id, MaxTeamId, 1) : id \in 0..MaxGameId}
    \cup {[GameNew(MaxGameId, 1, MaxTeamId) EXCEPT !.at_bat = Some(MaxPlayerId)]}

GameLists ==
    {<<>>} \cup {<<g>> : g \in GameInputs}
    \cup {<<GameNew(MaxGameId, 1, MaxTeamId), g>> : g \in LaterGames}

Dates == 1..MaxDay

Init ==
    /\ players = <<>>
    /\ teams = <<>>
    /\ date = 0
    /\ games_today = <<>>
    /\ last = Call("new", TRUE)
    /\ panicked = ""
    /\ calls_left = MaxCalls
    /\ rng = New(TestState)
    /\ seed = None
    /\ twin = None

Next ==
    \/ \E player \in PlayerInputs : AddPlayer(player)
    \/ \E team \in TeamInputs : AddTeam(team)
    \/ \E d \in Dates, games \in GameLists : StartDay(d, games)
    \/ Tick

Spec == Init /\ [][Next]_vars

----------------------------------------------------------------------------
\* A day of games in progress: a Sim with three teams (the third has no
\* players at all), and games that are new or stand at the start of a
\* half-inning late in the game, as play from a new game leaves them: count,
\* outs and bases empty, both pitchers resolved, both sides having batted.

LeaguePlayers == [p \in 1..MaxLeagueId |-> Player(p)]

LeagueTeams ==
    (1 :> Team(1, <<1, 2>>, <<3>>, <<>>, 0))
    @@ (2 :> Team(2, <<4>>, <<5>>, <<>>, 0))
    @@ (3 :> Team(3, <<>>, <<>>, <<>>, 0))

\* A game that stands at the start of a half-inning (Top, Bottom: the last
\* tick announced it) or at its end (Mid, End: the last tick was the third
\* out, a strikeout of the first batter of the lineup).
InProgress(id, away, home, frame, n, away_runs, home_runs) ==
    [GameNew(id, away, home) EXCEPT
        !.inning = Inning(frame, n),
        !.last_update =
            CASE frame = "Top" -> Update("Top of", away, n)
              [] frame = "Bottom" -> Update("Bottom of", home, n)
              [] frame = "Mid" -> Update("strikes out swinging", LeagueTeams[away].lineup[1], 0)
              [] frame = "End" -> Update("strikes out swinging", LeagueTeams[home].lineup[1], 0),
        !.away = [id |-> away, runs |-> away_runs,
                  pitcher |-> Some(LeagueTeams[away].rotation[1]), lineup_slot |-> 2],
        !.home = [id |-> home, runs |-> home_runs,
                  pitcher |-> Some(LeagueTeams[home].rotation[1]), lineup_slot |-> 2]]

\* a game handed to start_day in the top of the first with two out (the
\* fields of Game are public)
TwoOut(id, away, home) ==
    [GameNew(id, away, home) EXCEPT
        !.inning = Inning("Top", 1),
        !.outs = OUTS_NEEDED - 1,
        !.last_update = Update("strikes out swinging", LeagueTeams[away].lineup[1], 0)]

\* The game of Game::new(id, away, home) after a strikeout of the first
\* batter of a lineup of two and three walks (the count is not reset by a
\* strikeout or a walk, and the batter who comes up again is on second),
\* handed to start_day as the first batter comes up once more.
Loaded(id, away, home) ==
    LET lineup == LeagueTeams[away].lineup
    IN  [GameNew(id, away, home) EXCEPT
            !.inning = Inning("Top", 1),
            !.balls = BALLS_NEEDED + 2,
            !.strikes = STRIKES_NEEDED,
            !.outs = 1,
            !.baserunners = <<<<lineup[2], 3>>, <<lineup[1], 2>>, <<lineup[2], 1>>>>,
            !.at_bat = Some(lineup[1]),
            !.home = [id |-> home, runs |-> 0,
                      pitcher |-> Some(LeagueTeams[home].rotation[1]), lineup_slot |-> 0],
            !.last_update = Update("batting for", lineup[1], away)]

\* A game handed to start_day in the top of the first with the batting
\* side's lineup_slot at usize::MAX: the first batter is up with a count of
\* three balls and two strikes, the second is on first.
SlotMax(id, away, home, outs) ==
    LET lineup == LeagueTeams[away].lineup
    IN  [GameNew(id, away, home) EXCEPT
            !.inning = Inning("Top", 1),
            !.balls = BALLS_NEEDED - 1,
            !.strikes = STRIKES_NEEDED - 1,
            !.outs = outs,
            !.baserunners = <<<<lineup[2], 1>>>>,
            !.at_bat = Some(lineup[1]),
            !.away = [id |-> away, runs |-> 0, pitcher |-> None, lineup_slot |-> USIZE_MAX],
            !.home = [id |-> home, runs |-> 0,
                      pitcher |-> Some(LeagueTeams[home].rotation[1]), lineup_slot |-> 0],
            !.last_update = Update("batting for", lineup[1], away)]

\* A game handed to start_day in the top of the first with one out and a
\* count of one ball and one strike: the first batter of the lineup is up,
\* and runners of the lineup stand on the bases given, the lead runner first.
OnBases(id, away, home, bases) ==
    LET lineup == LeagueTeams[away].lineup
        order == SortedSeq(bases)
        n == Len(order)
    IN  [GameNew(id, away, home) EXCEPT
            !.inning = Inning("Top", 1),
            !.balls = 1,
            !.strikes = 1,
            !.outs = 1,
            !.baserunners = [k \in 1..n |-> <<lineup[(k % Len(lineup)) + 1], order[n + 1 - k]>>],
            !.at_bat = Some(lineup[1]),
            !.home = [id |-> home, runs |-> 0,
                      pitcher |-> Some(LeagueTeams[home].rotation[1]), lineup_slot |-> 0],
            !.last_update = Update("batting for", lineup[1], away)]

\* the ticks of a game that is handed over in the middle of a half-inning
MaxTicksSnap == 3
\* the ticks of a game that is handed over with runners who may steal
MaxTicksSteal == 3

\* The scores a game can have at the start of a half-inning: the game goes on
\* after Mid(n), n >= 9, only if the home side is not ahead, and after End(n),
\* n >= 9, only if the score is tied; the top of an extra inning starts tied
\* and can only put the away side ahead.
CanStand(frame, n, away_runs, home_runs) ==
    /\ frame \in {"Top", "Mid"} /\ n > LAST_INNING => away_runs = home_runs \/ frame = "Mid"
    /\ frame = "Mid" /\ n > LAST_INNING => away_runs >= home_runs
    /\ frame = "Bottom" /\ n >= LAST_INNING => away_runs >= home_runs

LateGames ==
    {InProgress(1, 1, 2, frame, n, ar, hr) :
        frame \in {"Top", "Mid", "Bottom", "End"},
        n \in (LAST_INNING - 1)..(LAST_INNING + MaxExtraInnings),
        ar \in 0..MaxStartRuns, hr \in 0..MaxStartRuns}

\* A game that start_day is handed with its winner already set.
Decided == [GameNew(1, 1, 2) EXCEPT !.winner = Some(2)]

GameDays ==
    {<<g>> : g \in {h \in LateGames : CanStand(h.inning.frame, h.inning.n, h.away.runs, h.home.runs)}}
    \cup {<<GameNew(1, 1, 2)>>, <<GameNew(1, 2, 2)>>, <<GameNew(1, 3, 1)>>, <<GameNew(1, 1, 3)>>}
    \cup {<<InProgress(1, 2, 2, "Mid", LAST_INNING, 0, MaxStartRuns)>>}
    \cup {<<InProgress(1, 1, 2, "Mid", LAST_INNING, 0, MaxStartRuns), GameNew(2, 2, 1)>>,
          <<GameNew(1, 3, 2), InProgress(2, 1, 2, "End", LAST_INNING, MaxStartRuns, 0)>>,
          <<GameNew(1, 3, 1), GameNew(2, 3, 2)>>,
          <<GameNew(1, 3, 1), GameNew(2, 2, 2)>>,
          <<Decided, InProgress(2, 1, 2, "Top", LAST_INNING, 0, 0)>>}
    \cup {<<Decided>>}

TicksFor(day) ==
    IF Len(day) > 1 THEN MaxTicksDay
    ELSE IF day[1].inning = DefaultInning THEN MaxTicksGame
    ELSE MaxTicksLate

\* A start: the teams of the store, the games of the day, the value of
\* rand_state and the ticks.  After the days of GameDays come the days at
\* the width of a usize: a game that ends at its next tick, one of whose
\* teams has its rotation_slot at usize::MAX (as add_team accepts a team),
\* and games at End(usize::MAX), tied and with the away side ahead.  The
\* last is a day of three games: one that is over, and two with the bases
\* loaded, with a generator whose draws 1, 2, 4 and 5 have a runner caught
\* stealing in each.
GameStarts ==
    {[teams |-> LeagueTeams, games |-> day, state |-> TestState, ticks |-> TicksFor(day)]
        : day \in GameDays}
    \cup {[teams |-> [LeagueTeams EXCEPT ![id].rotation_slot = USIZE_MAX],
            games |-> <<InProgress(1, 1, 2, "Mid", LAST_INNING, 0, MaxStartRuns)>>,
            state |-> TestState, ticks |-> MaxTicksLate] : id \in {1, 2}}
    \cup {[teams |-> LeagueTeams, games |-> <<InProgress(1, 1, 2, "End", USIZE_MAX, ar, 0)>>,
            state |-> TestState, ticks |-> MaxTicksLate] : ar \in 0..MaxStartRuns}
    \cup {[teams |-> LeagueTeams, games |-> <<Decided, Loaded(2, 1, 2), Loaded(3, 1, 2)>>,
            state |-> CaughtState, ticks |-> MaxTicksCaught]}

InitGame ==
    /\ players = LeaguePlayers
    /\ date = 0
    /\ \E start \in GameStarts :
          /\ teams = start.teams
          /\ games_today = start.games
          /\ rng = New(start.state)
          /\ calls_left = start.ticks
    /\ last = Call("start_day", TRUE)
    /\ panicked = ""
    /\ seed = None
    /\ twin = None

SpecGame == InitGame /\ [][Tick]_vars

----------------------------------------------------------------------------
\* Properties of the store (Spec).

OtherSide(sel) == IF sel = "away" THEN "home" ELSE "away"

\* The references of a game: the teams and the players it names.
TeamsNamed(game) == Range(game.winner) \cup {game.away.id, game.home.id}

PlayersNamed(game) ==
    Range(game.at_bat) \cup {r[1] : r \in Range(game.baserunners)}
    \cup Range(game.away.pitcher) \cup Range(game.home.pitcher)

\* A team or a game is sound in a store with these players and teams.
TeamSound(team, ps) ==
    /\ team.id # NilId
    /\ Range(Roster(team)) \subseteq DOMAIN ps
    /\ \A i, j \in 1..Len(Roster(team)) : Roster(team)[i] = Roster(team)[j] => i = j

GameSound(game, ts, ps) ==
    /\ game.id # NilId
    /\ TeamsNamed(game) \subseteq DOMAIN ts
    /\ PlayersNamed(game) \subseteq DOMAIN ps

\* The five global rules of the store.
StoreConsistent ==
    /\ \A k \in DOMAIN teams : teams[k].id = k /\ TeamSound(teams[k], players)
    /\ \A k \in DOMAIN players : players[k].id = k /\ k # NilId
    /\ \A i \in 1..Len(games_today) : GameSound(games_today[i], teams, players)

\* C1: in every state that add_player, add_team, start_day and tick calls,
\* accepted or rejected, reach from an empty Sim, check_consistency reports
\* no problem: no nil id, every key is the id of its entity, every roster
\* names existing players once, every game names existing teams and players;
\* and the debug_check that a call runs before it returns never fails.
C1_Consistent ==
    /\ panicked # "debug_check"
    /\ CheckConsistency(Db) = {<<>>}
    /\ StoreConsistent

\* C2: a call of add_player, add_team or start_day that returns an error
\* leaves players, teams, the date and today's games as they were, also when
\* only a later game of the list fails.
C2_ErrorLeavesStore ==
    [][(last'.op \in {"add_player", "add_team", "start_day"} /\ ~last'.ok)
        => UNCHANGED <<players, teams, date, games_today>>]_vars

\* C2: start_day has rejected a list whose first game passed and whose second
\* did not, on a store that has players, teams and a day.
C2_Witness ==
    /\ last.op = "start_day"
    /\ ~last.ok
    /\ last.at = 2
    /\ DOMAIN players # {}
    /\ DOMAIN teams # {}
    /\ games_today # <<>>

\* C3: add_team rejects the team, and leaves the teams alone, exactly when its
\* id is nil, or a player of its lineup, rotation or shadows is not in the
\* player map, or a player is listed more than once across the three; in
\* every other case it puts the team in the map under its own id.
C3_AddTeam ==
    [][last'.op = "add_team" =>
          \A team \in TeamInputs :
              AddTeam(team) =>
                IF TeamSound(team, players)
                THEN last'.ok /\ teams' = Insert(teams, team.id, team)
                ELSE ~last'.ok /\ teams' = teams]_vars

\* C3: add_team has rejected a team although players and a team are there.
C3_Witness ==
    /\ last.op = "add_team"
    /\ ~last.ok
    /\ DOMAIN players = 1..MaxPlayerId
    /\ DOMAIN teams # {}

\* C4: an accepted start_day installs exactly the date and the games given,
\* returns exactly the date and the games it replaces, and leaves players and
\* teams alone.
C4_StartDay ==
    [][last'.op = "start_day" =>
          \A games \in {l \in GameLists : \A i \in 1..Len(l) : GameSound(l[i], teams, players)} :
              \A d \in Dates :
                  StartDay(d, games)
                  => /\ last'.ok
                     /\ date' = d
                     /\ games_today' = games
                     /\ last'.old_date = date
                     /\ last'.old_games = games_today
                     /\ UNCHANGED <<players, teams>>]_vars

\* C4: start_day has replaced a day that had games by another.
C4_Witness ==
    /\ last.op = "start_day"
    /\ last.ok
    /\ last.old_games # <<>>
    /\ games_today # <<>>
    /\ games_today # last.old_games

----------------------------------------------------------------------------
\* Deserialization (SpecLoad): the documents a Sim is loaded from.

MaxLoads == 1

DocPlayers ==
    {<<>>,
     (1 :> Player(1)),
     (1 :> Player(1)) @@ (MaxPlayerId :> Player(MaxPlayerId)),
     (1 :> Player(MaxPlayerId)),
     (NilId :> Player(NilId))}

DocTeams ==
    {<<>>,
     (1 :> Team(1, <<>>, <<>>, <<>>, 0)),
     (1 :> Team(1, <<1>>, <<MaxPlayerId>>, <<>>, 0)),
     (1 :> Team(MaxTeamId, <<1>>, <<>>, <<>>, 0)),
     (1 :> Team(1, <<1, 1>>, <<1>>, <<MaxPlayerId, MaxPlayerId>>, 0)),
     (NilId :> Team(NilId, <<MaxPlayerId>>, <<>>, <<>>, 0))}

DocGames ==
    {<<>>,
     <<GameNew(1, 1, 1)>>,
     <<GameNew(NilId, 1, MaxTeamId)>>,
     <<[GameNew(1, 1, 1) EXCEPT !.at_bat = Some(MaxPlayerId),
                                !.baserunners = <<<<MaxPlayerId, 1>>>>]>>,
     <<GameNew(1, 1, 1), [GameNew(MaxGameId, MaxTeamId, MaxTeamId) EXCEPT
                             !.winner = Some(MaxTeamId)]>>}

Documents ==
    {Database(ps, ts, MaxDay, gs) : ps \in DocPlayers, ts \in DocTeams, gs \in DocGames}

InitLoad ==
    /\ players = <<>>
    /\ teams = <<>>
    /\ date = 0
    /\ games_today = <<>>
    /\ last = Call("new", TRUE)
    /\ panicked = ""
    /\ calls_left = MaxLoads
    /\ rng = New(TestState)
    /\ seed = None
    /\ twin = None

NextLoad == \E doc \in Documents : Deserialize(doc)

SpecLoad == InitLoad /\ [][NextLoad]_vars

\* The violations of the rules of the store in a document, each one once:
\* keys that are not the id of their entity, nil ids, roster players that are
\* missing, roster players listed more than once, and the slots of a game
\* that name a missing team or player.
Violations(doc) ==
    {<<"key", "team", k>> : k \in {k \in DOMAIN doc.teams : doc.teams[k].id # k}}
    \cup {<<"key", "player", k>> : k \in {k \in DOMAIN doc.players : doc.players[k].id # k}}
    \cup {<<"nil", "team", k>> : k \in {k \in DOMAIN doc.teams : doc.teams[k].id = NilId}}
    \cup {<<"nil", "player", k>> : k \in {k \in DOMAIN doc.players : doc.players[k].id = NilId}}
    \cup {<<"nil", "game", i>> : i \in {i \in 1..Len(doc.games_today) : doc.games_today[i].id = NilId}}
    \cup UNION {{<<"missing", k, p>> : p \in Range(Roster(doc.teams[k])) \ DOMAIN doc.players}
                : k \in DOMAIN doc.teams}
    \cup UNION {{<<"twice", k, p>> : p \in {q \in Range(Roster(doc.teams[k])) :
                    \E i, j \in 1..Len(Roster(doc.teams[k])) :
                        i # j /\ Roster(doc.teams[k])[i] = q /\ Roster(doc.teams[k])[j] = q}}
                : k \in DOMAIN doc.teams}
    \cup UNION {LET g == doc.games_today[i]
                IN  {<<"team", i, slot>> : slot \in
                        {slot \in {"winner", "away", "home"} :
                            IF slot = "winner" THEN Range(g.winner) \ DOMAIN doc.teams # {}
                            ELSE g[slot].id \notin DOMAIN doc.teams}}
                    \cup {<<"player", i, slot>> : slot \in
                        {slot \in {"at_bat", "away", "home"} :
                            IF slot = "at_bat" THEN Range(g.at_bat) \ DOMAIN doc.players # {}
                            ELSE Range(g[slot].pitcher) \ DOMAIN doc.players # {}}}
                    \cup {<<"runner", i, j>> : j \in
                        {j \in 1..Len(g.baserunners) :
                            g.baserunners[j][1] \notin DOMAIN doc.players}}
                : i \in 1..Len(doc.games_today)}

\* C5: loading a document succeeds exactly when the store it holds passes the
\* full consistency check, and then the store is the document's; when it
\* fails, the detail of the error has one line for every violation.
C5_Load ==
    [][\A doc \in Documents :
          Deserialize(doc) =>
            IF Violations(doc) = {}
            THEN /\ last'.ok
                 /\ Database(players', teams', date', games_today') = doc
            ELSE /\ ~last'.ok
                 /\ Len(last'.detail) = Cardinality(Violations(doc))]_vars

\* C5: a load has failed with more than one line of detail.
C5_Witness ==
    /\ last.op = "deserialize"
    /\ ~last.ok
    /\ Len(last.detail) > 2

----------------------------------------------------------------------------
\* Properties of a day of games (SpecGame).

Unfinished == SortedSeq({i \in 1..Len(games_today) : games_today[i].winner = None})

RECURSIVE SumSeq(_)
SumSeq(s) == IF s = <<>> THEN 0 ELSE Head(s) + SumSeq(Tail(s))

\* Game i was ticked in the step, and the call returned.
Ticked(i) == panicked' = "" /\ i \in Range(last'.visited)

\* Game i was ticked in the step.
Visited(i) == i \in Range(last'.visited)

\* The draws that the tick read before it came to the k-th game it visited.
DrawsBefore(k) == SumSeq(SubSeq(last'.draws, 1, k - 1))

\* The generator after the tick is the generator before it, advanced by the
\* draws of the games visited, and by nothing else.
DrawsRead == rng' = Skip(rng, SumSeq(last'.draws))

\* The events of a game, by the kind of the update.
Events ==
    {"Game over", "Play ball!", "Top of", "Bottom of", "batting for", "steals",
     "caught stealing", "Strike, looking", "Strike, swinging", "strikes out looking",
     "strikes out swinging", "Ball", "draws a walk", "Foul Ball", "flyout", "ground out",
     "hits", "solo home run", "n-run home run"}

\* One event, and no more, lies between the game g and the game h: h shows
\* the update of an event, the game and its sides are the same, the inning
\* is at most one phase further, balls, strikes and outs are each at most
\* one higher, or reset, and at most one more runner is on base.
OneEvent(g, h) ==
    /\ h.last_update.kind \in Events
    /\ h.id = g.id /\ h.away.id = g.away.id /\ h.home.id = g.home.id
    /\ h.inning \in {g.inning, Advance(g.inning).inning}
       \/ (g.inning = DefaultInning /\ h.inning = Inning("Top", 1))
    /\ h.balls \in {g.balls, g.balls + 1, 0}
    /\ h.strikes \in {g.strikes, g.strikes + 1, STRIKES_NEEDED - 1, 0}
    /\ h.outs \in {g.outs, g.outs + 1, 0}
    /\ Len(h.baserunners) <= Len(g.baserunners) + 1
    /\ g.winner = None

\* The k-th game visited read its draws where the game before it had left
\* the generator: if its event is a steal or a caught stealing, the last two
\* draws it read, counted from there, are an attempt roll below 0.02 and a
\* success roll that is below 0.5 exactly for a steal.
ReadInTurn(k) ==
    LET h == games_today'[last'.visited[k]]
        n == last'.draws[k]
        attempt_roll == NextF64(Skip(rng, DrawsBefore(k) + n - 2)).draw
        success_roll == NextF64(Skip(rng, DrawsBefore(k) + n - 1)).draw
    IN  h.last_update.kind \in {"steals", "caught stealing"}
        => /\ n >= 3
           /\ Below(attempt_roll, STEAL_ATTEMPT)
           /\ Below(success_roll, STEAL_SUCCESS) <=> h.last_update.kind = "steals"

\* C6: one Sim::tick resolves exactly one event for each game of today that
\* has no winner when it is visited, in the order of the list and one game
\* after the other, each reading the generator where the game before it
\* left it; a game that has a winner is left as it is, last_update
\* included.  When a game's tick panics, the games before it have had their
\* event and the games after it are as they were.
C6_TickVisits ==
    [][/\ Len(games_today') = Len(games_today)
       /\ Len(last'.visited) <= Len(Unfinished)
       /\ Len(last'.draws) = Len(last'.visited)
       /\ \A k \in 1..Len(last'.visited) : last'.visited[k] = Unfinished[k]
       /\ DrawsRead
       /\ \A i \in 1..Len(games_today) :
             (games_today[i].winner # None \/ ~Visited(i)) => games_today'[i] = games_today[i]
       /\ panicked' = "" => last'.visited = Unfinished
       /\ \A k \in 1..Len(last'.visited) :
             (panicked' \in {"", "debug_check"} \/ k < Len(last'.visited))
             => /\ OneEvent(games_today[last'.visited[k]], games_today'[last'.visited[k]])
                /\ ReadInTurn(k)]_vars

\* C6: a tick has passed over the first game, which has a winner, and in
\* the second and the third a runner was caught stealing, on the draws 1
\* and 2 and on the draws 4 and 5 of the generator.
C6_Witness ==
    /\ Len(games_today) = 3
    /\ last.op = "tick"
    /\ games_today[1] = Decided
    /\ last.visited = <<2, 3>>
    /\ last.draws = <<3, 3>>
    /\ games_today[2].last_update.kind = "caught stealing"
    /\ games_today[3].last_update.kind = "caught stealing"

\* C7: once the winner of a game is set, no tick changes or clears it, and no
\* tick changes any other field of the game.
C7_FinishedFrozen ==
    [][\A i \in 1..Len(games_today) :
          games_today[i].winner # None
          => /\ i <= Len(games_today')
             /\ games_today'[i].winner = games_today[i].winner
             /\ games_today'[i] = games_today[i]]_vars

\* C7: a tick has run on a day whose only game was already over.
C7_Witness ==
    /\ Len(games_today) = 1
    /\ games_today[1].winner # None
    /\ last.op = "tick"
    /\ last.visited = <<>>

\* C8: a game with a winner stands at Mid(n) or End(n) with n >= 9, its winner
\* is one of its two sides, and that side has strictly more runs than the
\* other; the away side wins only at End(n); no game ends tied.
C8_Winner ==
    \A i \in 1..Len(games_today) :
        LET g == games_today[i]
        IN  g.winner # None
            => /\ g.inning.frame \in {"Mid", "End"}
               /\ (g.inning.n < 0 \/ g.inning.n >= LAST_INNING)
               /\ g.away.runs # g.home.runs
               /\ \E sel \in {"away", "home"} :
                     /\ g.winner = Some(g[sel].id)
                     /\ g[sel].runs > g[OtherSide(sel)].runs
                     /\ sel = "away" => g.inning.frame = "End"

NoDraw(i) ==
    /\ \E k \in 1..Len(last'.visited) : last'.visited[k] = i /\ last'.draws[k] = 0
    /\ DrawsRead
    /\ Len(games_today) = 1 => rng' = rng

\* C10: the first tick of a game as Game::new makes it moves the inning from
\* Top(0) to Top(1), sets last_update to "Play ball!", draws nothing from the
\* RNG and changes nothing else: no pitcher, no batter, no team, no player.
C10_PlayBall ==
    [][\A i \in 1..Len(games_today) :
          LET g == games_today[i]
          IN  (Visited(i) /\ g = GameNew(g.id, g.away.id, g.home.id))
              => /\ games_today'[i] = [g EXCEPT !.inning = Inning("Top", 1),
                                                !.last_update = Update("Play ball!", NilId, 0)]
                 /\ NoDraw(i)
                 /\ Len(games_today) = 1 => UNCHANGED <<teams, players, rng>>]_vars

\* C10: the first tick of a new game has just been made, and the generator
\* is as Rng::new built it.
C10_Witness ==
    /\ last.op = "tick"
    /\ Len(games_today) = 1
    /\ games_today[1].inning = Inning("Top", 1)
    /\ games_today[1].last_update = Update("Play ball!", NilId, 0)
    /\ games_today[1].away.pitcher = None
    /\ last.visited = <<1>>
    /\ rng = New(TestState)

----------------------------------------------------------------------------
\* Play from the first pitch (SpecPlay): one new game between two teams of
\* the league, ticked until the budget is spent.

MaxTicksPlay == 8
MaxTicksTrail == 2

\* A start: the games of the day, the value of rand_state, and the ticks.
\* A new game of a lineup of one against a lineup of two; a new game of a
\* team without players; games with two out, with the bases loaded, and
\* with the batting side's cursor at usize::MAX; and games with runners on
\* every set of bases, with generators that have the first runner who may
\* steal attempt it, and the second.
PlayStarts ==
    {[games |-> <<GameNew(1, 2, 1)>>, state |-> TestState, ticks |-> MaxTicksPlay],
     [games |-> <<GameNew(1, 3, 1)>>, state |-> TestState, ticks |-> MaxTicksSnap],
     [games |-> <<TwoOut(1, 1, 2)>>, state |-> TestState, ticks |-> MaxTicksSnap + 1]}
    \cup {[games |-> <<Loaded(1, 1, 2)>>, state |-> s, ticks |-> MaxTicksSnap]
            : s \in {TestState, StealState, CaughtState}}
    \cup {[games |-> <<SlotMax(1, 1, 2, outs)>>, state |-> TestState, ticks |-> MaxTicksSteal]
            : outs \in 1..(OUTS_NEEDED - 1)}
    \cup {[games |-> <<SlotMax(1, 1, 2, OUTS_NEEDED - 1)>>, state |-> CaughtState,
           ticks |-> MaxTicksSteal]}
    \cup {[games |-> <<OnBases(1, 1, 2, bases)>>, state |-> s,
            ticks |-> IF s = TrailState THEN MaxTicksTrail ELSE MaxTicksSteal]
            : bases \in (SUBSET (1..(HOME_BASE - 1))) \ {{}},
              s \in {StealState, CaughtState, TrailState}}

InitPlay ==
    /\ players = LeaguePlayers
    /\ teams = LeagueTeams
    /\ date = 0
    /\ \E start \in PlayStarts :
          /\ games_today = start.games
          /\ rng = New(start.state)
          /\ calls_left = start.ticks
    /\ last = Call("start_day", TRUE)
    /\ panicked = ""
    /\ seed = None
    /\ twin = None

SpecPlay == InitPlay /\ [][Tick]_vars

\* The update of the tick that has just run names one of these events.
Strikeouts == {"strikes out looking", "strikes out swinging"}

RunnerOn(game, base) ==
    (CHOOSE r \in Range(game.baserunners) : r[2] = base)[1]

HomeRuns == {"solo home run", "n-run home run"}

\* C13: a home run with k runners on base empties the bases and adds k + 1
\* runs to the batting side, the runners and the batter; the update says
\* "solo" exactly when one run scores, and names the number of runs otherwise.
C13_HomeRun ==
    [][\A i \in 1..Len(games_today) :
          LET g == games_today[i]
              h == games_today'[i]
              sel == Batting(g.inning)
              scored == Len(g.baserunners) + 1
          IN  (Ticked(i) /\ h.last_update.kind \in HomeRuns)
              => /\ h.baserunners = <<>>
                 /\ h[sel].runs = g[sel].runs + scored
                 /\ h.last_update.kind = "solo home run" <=> scored = 1
                 /\ scored > 1 => h.last_update.n = scored]_vars

----------------------------------------------------------------------------
\* A generator on its own: built by Rng::seeded, then drawn from, chosen
\* with, and written out and read back.

MaxDraws == 130
MaxChoices == 3

\* 2935246629125674131 and 766864515362452477, the seed of the test
\* `sixpack`; 1 and 2^64 - 1; 0 and 0
Seeds ==
    {<<{0, 1, 4, 7, 10, 12, 14, 15, 17, 20, 21, 24, 28, 29, 30, 31, 32, 38,
       40, 41, 42, 44, 50, 51, 52, 53, 55, 59, 61},
       {0, 2, 3, 4, 5, 6, 7, 8, 9, 12, 13, 14, 15, 16, 17, 18, 24, 26, 28,
       29, 31, 33, 34, 36, 37, 40, 41, 44, 45, 46, 50, 53, 55, 57, 59}>>,
     <<{0}, 0..63>>,
     <<{}, {}>>}

\* the draws made so far
Drawn == MaxDraws - calls_left

InitRng ==
    /\ players = <<>>
    /\ teams = <<>>
    /\ date = 0
    /\ games_today = <<>>
    /\ last = Call("seeded", TRUE)
    /\ panicked = ""
    /\ calls_left = MaxDraws
    /\ \E s \in Seeds : /\ seed = Some(s)
                        /\ rng = Seeded(s[1], s[2])
    /\ twin = None

\* rng.next_f64()
DrawF64 ==
    /\ calls_left > 0
    /\ calls_left' = calls_left - 1
    /\ LET d == NextF64(rng)
       IN  /\ rng' = d.rng
           /\ last' = [Call("next_f64", TRUE) EXCEPT !.detail = [draw |-> d.draw]]
    /\ UNCHANGED <<players, teams, date, games_today, panicked, seed, twin>>

\* rng.choose(choices), choices of len items
ChooseFrom(len) ==
    /\ calls_left > 0
    /\ calls_left' = calls_left - 1
    /\ LET c == Choose(rng, len)
       IN  /\ rng' = c.rng
           /\ last' = [Call("choose", TRUE) EXCEPT
                          !.detail = [draw |-> c.draw, len |-> len, item |-> c.item]]
    /\ UNCHANGED <<players, teams, date, games_today, panicked, seed, twin>>

\* serde: the generator is written out and read back
Reload ==
    /\ rng' = DeserializeRng(SerializeRng(rng))
    /\ last' = [Call("reload", TRUE) EXCEPT !.detail = last.detail]
    /\ UNCHANGED <<players, teams, date, games_today, panicked, calls_left, seed, twin>>

NextRng ==
    \/ DrawF64
    \/ \E len \in 0..MaxChoices : ChooseFrom(len)
    \/ Reload

SpecRng == InitRng /\ [][NextRng]_vars

RECURSIVE DrawsOf(_, _)
\* the next n draws of a generator
DrawsOf(r, n) ==
    IF n = 0 THEN <<>>
    ELSE LET d == NextF64(r) IN <<d.draw>> \o DrawsOf(d.rng, n - 1)

\* C14: whatever the number of undrawn words of a generator (64 after a
\* refill, 0 right before one, 63, or any other), writing it out and
\* reading it back gives a generator with the same two state words and the
\* same undrawn words, and its subsequent draws (here the next two, which
\* cross a refill when one word or none is left) are the draws of the
\* original.
C14_RoundTrip ==
    LET r == DeserializeRng(SerializeRng(rng))
    IN  /\ Len(AsSlice(rng)) \in 0..BATCH
        /\ r.state = rng.state
        /\ AsSlice(r) = AsSlice(rng)
        /\ DrawsOf(r, 2) = DrawsOf(rng, 2)

C14_Witness ==
    /\ last.op = "reload"
    /\ AsSlice(rng) = <<>>
    /\ Drawn = BATCH
    /\ rng.state = Seeded(seed[1][1], seed[1][2]).state

\* The raw word sequence of xorshift128+ from a seed, stated bit by bit on
\* the 64 bits of a word: t = a ^ (a << 23), u = t ^ (t >> 17), and the new
\* second word is u ^ b ^ (b >> 26); the first word becomes b.
RawStep(s) ==
    LET a == s[1]
        b == s[2]
        t == {i : i \in {j \in 0..63 : (j \in a) # (j - 23 \in a)}}
        u == {i : i \in {j \in 0..63 : (j \in t) # (j + 17 \in t)}}
    IN  <<b, {i : i \in {j \in 0..63 : ((j \in u) # (j \in b)) # (j + 26 \in b)}}>>

RECURSIVE RawState(_, _)
\* the two state words after n steps (n steps are n / 2 steps twice; the
\* zero state is a fixed point)
RawState(s, n) ==
    IF n = 0 \/ s = <<{}, {}>> THEN s
    ELSE IF n % 2 = 0 THEN RawState(RawState(s, n \div 2), n \div 2)
    ELSE RawState(RawStep(s), n - 1)

\* raw word n (from 0): the second state word before step n + 1, shifted
\* right by 12
RawWord(s, n) == LET w == RawState(s, n)[2] IN {i : i \in {j \in 0..51 : j + 12 \in w}}

\* how many batches a generator has generated once k draws were made
Batches(k) == IF k = 0 THEN 1 ELSE ((k - 1) \div BATCH) + 1

\* the seed of the test `sixpack`, whose 47th draw is 0.49703677530116863
\* = 2238454636035776 / 2^52
Sixpack == CHOOSE s \in Seeds : Cardinality(s[1]) > 1
SixpackDraw47 ==
    {6, 7, 9, 10, 11, 12, 13, 16, 18, 19, 21, 22, 24, 26, 28, 30, 31, 34, 35, 36, 38,
     39, 40, 41, 44, 45, 46, 47, 48, 49, 50}

\* C15: the draws of a seeded generator depend only on the seed: draw k
\* (from 0) is raw word 64 * floor(k / 64) + 63 - (k mod 64) of the
\* xorshift128+ sequence of the seed (shifts 23, 17, 26, modulo 2^64,
\* output the second state word shifted right by 12, below 2^52), as a
\* double of [0, 1); and a batch is generated only when the one before is
\* used up: after k draws the state is that of as many steps as the
\* batches the draws needed, and the undrawn words are the rest of the
\* last batch.
C15_DrawSequence ==
    LET k == Drawn - 1
    IN  /\ rng.state = RawState(seed[1], BATCH * Batches(Drawn))
        /\ Len(AsSlice(rng)) = BATCH * Batches(Drawn) - Drawn
        /\ last.op \in {"next_f64", "choose"}
              => /\ last.detail.draw.hi = ONE_BITS
                 /\ last.detail.draw.frac
                       = RawWord(seed[1], BATCH * (k \div BATCH) + (BATCH - 1) - (k % BATCH))
                 /\ (seed[1] = Sixpack /\ Drawn = 47) => last.detail.draw.frac = SixpackDraw47

\* the 65th draw, the first of a second batch
C15_Witness ==
    /\ last.op = "next_f64"
    /\ Drawn = BATCH + 1
    /\ seed = Some(Sixpack)
    /\ Len(AsSlice(rng)) = BATCH - 1
    /\ last.detail.draw.frac # {}

----------------------------------------------------------------------------
\* A generator read from a document (SpecDoc): Rng is Deserialize, and
\* deserialize_iter takes every u64 for an undrawn word.

MaxDocWords == 2
MaxDocDraws == 2

\* Words of a document: 0, the largest word below 2^52, 2^62 (the draw is
\* +inf), 2^62 + 1 (a NaN) and 2^63 (a negative draw).
RngDocs ==
    LET words == {{}, MantissaBits, {62}, {0, 62}, {63}}
    IN  {[state |-> <<TestState[1], TestState[2]>>, iter |-> iter]
            : iter \in UNION {[1..n -> words] : n \in 0..MaxDocWords}}

InitDoc ==
    /\ players = <<>>
    /\ teams = <<>>
    /\ date = 0
    /\ games_today = <<>>
    /\ last = Call("deserialize", TRUE)
    /\ panicked = ""
    /\ calls_left = MaxDocDraws
    /\ \E doc \in RngDocs : rng = DeserializeRng(doc)
    /\ seed = None
    /\ twin = None

NextDoc ==
    \/ DrawF64
    \/ \E len \in 0..MaxChoices : ChooseFrom(len)

SpecDoc == InitDoc /\ [][NextDoc]_vars

\* C16: a call of choose draws exactly once whatever the number of choices
\* (one, or none at all, included): the generator after it is the
\* generator after one next_f64.  It returns nothing only when there is
\* no choice; otherwise it returns the item at an index of 0..length-1, and
\* with a single choice that choice.
C16_Choose ==
    [][last'.op = "choose"
        => LET len == last'.detail.len
               item == last'.detail.item
               one == NextF64(rng)
           IN  /\ rng'.state = one.rng.state
               /\ AsSlice(rng') = AsSlice(one.rng)
               /\ last'.detail.draw = one.draw
               /\ calls_left' = calls_left - 1
               /\ (item = None) <=> (len = 0)
               /\ len >= 1 => item[1] \in 0..(len - 1)
               /\ len = 1 => item = Some(0)]_vars

----------------------------------------------------------------------------
\* Claims that the game state machine does not keep.

\* C17: in a Sim whose teams, players and games went through the checks of
\* add_player, add_team and start_day, every Sim::tick runs to completion:
\* no tick panics.
C17_TickCompletes == last.op \in {"start_day", "tick"} => panicked = ""

\* C18: a walk and a strikeout reset the count: after the tick in which a
\* plate appearance ends by either, balls = 0 and strikes = 0, and so every
\* batter is announced with a count of 0-0.
C18_CountReset ==
    [][\A i \in 1..Len(games_today) :
          LET h == games_today'[i]
          IN  (/\ Ticked(i)
               /\ h.last_update.kind \in Strikeouts \cup {"draws a walk", "batting for"})
              => /\ h.balls = 0
                 /\ h.strikes = 0]_vars

BattedBalls == {"flyout", "ground out", "hits"} \cup HomeRuns

\* C19: a ball put in play ends the plate appearance: after a tick whose
\* event is a batted-ball out, a home run or a base hit the game has no
\* current batter.
C19_InPlayEndsAtBat ==
    [][\A i \in 1..Len(games_today) :
          LET h == games_today'[i]
          IN  (Ticked(i) /\ h.last_update.kind \in BattedBalls) => h.at_bat = None]_vars

\* C20: every completed plate appearance (a walk, a strikeout, the one that
\* is the third out included, or a ball put in play) moves the lineup_slot
\* of the side that batted by exactly one, and no other tick moves it.
C20_OneSlotEach ==
    [][\A i \in 1..Len(games_today) :
          LET g == games_today[i]
              h == games_today'[i]
              sel == Batting(g.inning)
              ended == h.last_update.kind \in Strikeouts \cup BattedBalls \cup {"draws a walk"}
          IN  Ticked(i)
              => /\ h[sel].lineup_slot = g[sel].lineup_slot + (IF ended THEN 1 ELSE 0)
                 /\ h[OtherSide(sel)].lineup_slot = g[OtherSide(sel)].lineup_slot]_vars

----------------------------------------------------------------------------
\* Baserunners, innings and cursors.

\* the base numbers of a game's runners, one entry per runner
BasesOf(game) == [i \in 1..Len(game.baserunners) |-> game.baserunners[i][2]]

\* C21: in a game started with no baserunners, or with runners on bases of
\* their own, no two entries of the baserunner list have the same base
\* number, whatever walks, base hits, steals, caught stealings and
\* half-inning changes happened.
C21_BasesDistinct ==
    \A i \in 1..Len(games_today) :
        LET bases == BasesOf(games_today[i])
        IN  \A a, b \in 1..Len(bases) : a # b => bases[a] # bases[b]

\* a runner has stolen second with another runner on third
C21_Witness ==
    /\ last.op = "tick"
    /\ panicked = ""
    /\ games_today[1].last_update.kind = "steals"
    /\ games_today[1].last_update.n = 2
    /\ BasesOf(games_today[1]) = <<3, 2>>

\* the tick of game i at Mid or End has advanced the inning and announced
\* the side that bats next, and has done nothing else
OnlyAdvanced(i) ==
    LET g == games_today[i]
        h == games_today'[i]
    IN  /\ h.inning = Advance(g.inning).inning
        /\ h.inning.frame = (IF g.inning.frame = "Mid" THEN "Bottom" ELSE "Top")
        /\ h.inning.n = (IF g.inning.frame = "Mid" THEN g.inning.n ELSE g.inning.n + 1)
        /\ h = [g EXCEPT !.inning = h.inning, !.last_update = h.last_update]
        /\ h.last_update.kind \in {"Top of", "Bottom of"}
        /\ NoDraw(i)
        /\ Len(games_today) = 1 => UNCHANGED <<teams, players, rng>>

\* C22, as stated: the inning only moves along the cycle Top(n), Mid(n),
\* Bottom(n), End(n), Top(n+1), at most one phase per tick, and the tick of
\* an unfinished game at Mid(n) or End(n) advances it to Bottom(n) or
\* Top(n+1) and does nothing else.
C22_InningCycle ==
    [][\A i \in 1..Len(games_today) :
          LET g == games_today[i]
              h == games_today'[i]
          IN  Ticked(i)
              => /\ h.inning \in {g.inning, Advance(g.inning).inning}
                 /\ (g.winner = None /\ g.inning.frame \in {"Mid", "End"}) => OnlyAdvanced(i)]_vars

\* C22, amended: once the first tick has set Top(1), the inning only moves
\* along the cycle, at most one phase per tick that returns; and a tick of
\* a game at Mid(n) or End(n) that returns and does not end the game (it
\* sets no winner) advances it to Bottom(n) or Top(n+1) and does nothing
\* else.  (At End(usize::MAX) the tick of a tied game panics.)
C22_InningCycleInPlay ==
    [][\A i \in 1..Len(games_today) :
          LET g == games_today[i]
              h == games_today'[i]
          IN  Ticked(i)
              => /\ g.inning # DefaultInning => h.inning \in {g.inning, Advance(g.inning).inning}
                 /\ (h.winner = None /\ g.inning.frame \in {"Mid", "End"}) => OnlyAdvanced(i)]_vars

\* a game that stood at End(9), tied, has been moved to the top of the 10th
C22_Witness ==
    /\ last.op = "tick"
    /\ \E i \in Range(last.visited) :
          /\ games_today[i].inning = Inning("Top", LAST_INNING + 1)
          /\ games_today[i].last_update.kind = "Top of"
          /\ games_today[i].winner = None
          /\ games_today[i].at_bat = None

\* the tick of game i has set its winner
WinnerSet(i) == games_today[i].winner = None /\ games_today'[i].winner # None

\* C23: in the tick that sets a game's winner, the rotation_slot of the
\* away team and of the home team each increase by exactly one, and the
\* game's runs, inning, count and baserunners are unchanged; in any other
\* tick of a game a rotation_slot is written only when a pitcher is
\* resolved.  (Stated for days of one game, where every change of a team is
\* the work of that game's tick.)
C23_GameOverRotation ==
    [][\A i \in 1..Len(games_today) :
          LET g == games_today[i]
              h == games_today'[i]
          IN  (Ticked(i) /\ Len(games_today) = 1)
              => IF WinnerSet(i)
                 THEN /\ teams'[g.away.id].rotation_slot = teams[g.away.id].rotation_slot + 1
                      /\ teams'[g.home.id].rotation_slot = teams[g.home.id].rotation_slot + 1
                      /\ h = [g EXCEPT !.winner = h.winner, !.last_update = h.last_update]
                 ELSE \A t \in DOMAIN teams :
                         teams'[t].rotation_slot # teams[t].rotation_slot
                         => \E sel \in {"away", "home"} :
                               /\ g[sel].id = t
                               /\ g[sel].pitcher = None
                               /\ h[sel].pitcher # None]_vars

\* the positions in the baserunner list of the runners a walk forces: those
\* with every base behind theirs occupied
Forced(game) ==
    {k \in 1..Len(game.baserunners) :
        \A b \in 1..(game.baserunners[k][2] - 1) : b \in BasesOccupied(game)}

\* C24: on a walk a runner on base b advances by exactly one base if and
\* only if every base 1..b-1 was occupied before the walk, and every other
\* runner keeps its base; a runner advanced to home (base 4) scores one run
\* and leaves the bases; the batter is then placed on first.
C24_WalkForces ==
    [][\A i \in 1..Len(games_today) :
          LET g == games_today[i]
              h == games_today'[i]
              sel == Batting(g.inning)
              old == g.baserunners
              home == {k \in Forced(g) : old[k][2] + 1 = HOME_BASE}
              after == {<<old[k][1], IF k \in Forced(g) THEN old[k][2] + 1 ELSE old[k][2]>>
                          : k \in (1..Len(old)) \ home}
          IN  (Ticked(i) /\ h.last_update.kind = "draws a walk")
              => /\ Range(h.baserunners) = after \cup {<<g.at_bat[1], 1>>}
                 /\ Len(h.baserunners) = Len(old) - Cardinality(home) + 1
                 /\ h.baserunners[Len(h.baserunners)] = <<g.at_bat[1], 1>>
                 /\ h[sel].runs = g[sel].runs + Cardinality(home)]_vars

\* C25: on a base hit of n bases (1..3) every runner's base increases by
\* exactly n; each runner whose new base is at least 4 scores exactly one
\* run for the batting side and leaves the bases, the others stay on base,
\* in their order, with their new base number; the fielding side's runs
\* are unchanged.
C25_BaseHit ==
    [][\A i \in 1..Len(games_today) :
          LET g == games_today[i]
              h == games_today'[i]
              sel == Batting(g.inning)
              n == h.last_update.n
              moved == [k \in 1..Len(g.baserunners) |->
                          <<g.baserunners[k][1], g.baserunners[k][2] + n>>]
              Stays(r) == r[2] < HOME_BASE
              Scores(r) == r[2] >= HOME_BASE
          IN  (Visited(i) /\ h.last_update.kind = "hits")
              => /\ n \in 1..3
                 /\ h.baserunners = SelectSeq(moved, Stays)
                 /\ h[sel].runs = g[sel].runs + Len(SelectSeq(moved, Scores))
                 /\ h[OtherSide(sel)].runs = g[OtherSide(sel)].runs]_vars

\* a double with the bases loaded: two score, the runner of first is on
\* third
C25_Witness ==
    /\ last.op = "tick"
    /\ panicked = ""
    /\ games_today[1].last_update.kind = "hits"
    /\ games_today[1].last_update.n = 2
    /\ Len(games_today[1].baserunners) = 1
    /\ games_today[1].baserunners[1][2] = 3
    /\ games_today[1].away.runs = 2
    /\ games_today[1].home.runs = 0

\* C26: a foul ball never completes a strikeout: after a foul tick strikes
\* is min(strikes before + 1, 2), and balls, outs, baserunners, runs,
\* at_bat and inning (and everything else of the game but the update) are
\* unchanged.
C26_Foul ==
    [][\A i \in 1..Len(games_today) :
          LET g == games_today[i]
              h == games_today'[i]
          IN  (Visited(i) /\ h.last_update.kind = "Foul Ball")
              => /\ h.strikes = (IF g.strikes + 1 < 2 THEN g.strikes + 1 ELSE 2)
                 /\ h.strikes < STRIKES_NEEDED
                 /\ h.at_bat = g.at_bat /\ h.at_bat # None
                 /\ h = [g EXCEPT !.strikes = h.strikes, !.last_update = h.last_update]]_vars

\* a foul with one out, the bases loaded and two strikes before it
C26_Witness ==
    /\ last.op = "tick"
    /\ panicked = ""
    /\ games_today[1].last_update.kind = "Foul Ball"
    /\ games_today[1].strikes = 2
    /\ games_today[1].balls = 1
    /\ games_today[1].outs = 1
    /\ BasesOccupied(games_today[1]) = {1, 2, 3}

\* the positions of the runners that may attempt a steal: the next base is
\* not occupied
MayAttempt(game) ==
    {k \in 1..Len(game.baserunners) : (game.baserunners[k][2] + 1) \notin BasesOccupied(game)}

\* the runner at position k of g's list, and no other, has stolen a base in
\* the tick from g to h, and nothing else of the game has changed
Stolen(g, h, k) ==
    /\ h.last_update.who = g.baserunners[k][1]
    /\ h = [g EXCEPT !.baserunners[k][2] = @ + 1, !.last_update = h.last_update]

\* the count was not incremented
NoPitch(g, h) == h.balls <= g.balls /\ h.strikes <= g.strikes

\* C27, as stated: a runner whose next base is occupied never attempts; at
\* most one runner attempts per tick; in a tick with an attempt no pitch is
\* resolved, and either exactly that runner's base increases by one, or
\* exactly that runner is removed and one out is registered; all other
\* runners are untouched.
C27_Steal ==
    [][\A i \in 1..Len(games_today) :
          LET g == games_today[i]
              h == games_today'[i]
          IN  /\ (Ticked(i) /\ h.last_update.kind = "steals")
                 => \E k \in MayAttempt(g) : Stolen(g, h, k)
              /\ (Ticked(i) /\ h.last_update.kind = "caught stealing")
                 => \E k \in MayAttempt(g) :
                       /\ h.last_update.who = g.baserunners[k][1]
                       /\ NoPitch(g, h)
                       /\ h.baserunners = RemoveAt(g.baserunners, k)
                       /\ h.outs = g.outs + 1 \/ (g.outs + 1 = OUTS_NEEDED /\ h.outs = 0)]_vars

\* C27, amended: as stated, except that a caught stealing that is the third
\* out of the half-inning ends it: every runner is removed, the count and
\* the outs are reset, the batter is cleared, the batting side's
\* lineup_slot moves by one and the inning advances.  (With the lineup_slot
\* at usize::MAX the tick panics, and shows no update.)
C27_StealOrThirdOut ==
    [][\A i \in 1..Len(games_today) :
          LET g == games_today[i]
              h == games_today'[i]
          IN  /\ (Visited(i) /\ h.last_update.kind = "steals")
                 => \E k \in MayAttempt(g) : Stolen(g, h, k)
              /\ (Visited(i) /\ h.last_update.kind = "caught stealing")
                 => \E k \in MayAttempt(g) :
                       /\ h.last_update.who = g.baserunners[k][1]
                       /\ IF g.outs + 1 < OUTS_NEEDED
                          THEN h = [g EXCEPT !.baserunners = RemoveAt(g.baserunners, k),
                                             !.outs = g.outs + 1,
                                             !.last_update = h.last_update]
                          ELSE h = [g EXCEPT !.baserunners = <<>>, !.outs = 0,
                                             !.balls = 0, !.strikes = 0, !.at_bat = None,
                                             ![Batting(g.inning)].lineup_slot = @ + 1,
                                             !.inning = Advance(g.inning).inning,
                                             !.last_update = h.last_update]]_vars

\* the runner of second was caught stealing third, the runner of first
\* still on first, for the second out
C27_Witness ==
    /\ last.op = "tick"
    /\ panicked = ""
    /\ games_today[1].last_update.kind = "caught stealing"
    /\ games_today[1].last_update.n = 3
    /\ BasesOccupied(games_today[1]) = {1}
    /\ games_today[1].outs = 2

\* C28: a tick of a game in Top or Bottom with no batter (the first tick of
\* a game, at the initial Top(0), aside) resolves a batter and announces
\* them, and resolves no pitch and no steal: balls, strikes, outs,
\* baserunners, runs and inning are unchanged; of the game only at_bat, the
\* batting side's lineup_slot and, if it was empty, the fielding side's
\* pitcher change; the RNG is drawn from only to generate a player.
C28_Announcement ==
    [][\A i \in 1..Len(games_today) :
          LET g == games_today[i]
              h == games_today'[i]
              bat == Batting(g.inning)
              fld == Fielding(g.inning)
          IN  (/\ Ticked(i)
               /\ g.inning.frame \in {"Top", "Bottom"}
               /\ g.inning # DefaultInning
               /\ g.at_bat = None)
              => /\ h.at_bat # None
                 /\ h.last_update = Update("batting for", h.at_bat[1], g[bat].id)
                 /\ h[fld].pitcher # None
                 /\ g[fld].pitcher # None => h[fld].pitcher = g[fld].pitcher
                 /\ h = [g EXCEPT !.at_bat = h.at_bat,
                                  ![bat].lineup_slot = h[bat].lineup_slot,
                                  ![fld].pitcher = h[fld].pitcher,
                                  !.last_update = h.last_update]
                 /\ DrawsRead
                 /\ Len(games_today) = 1 =>
                       LET read == GENERATE_DRAWS * Cardinality(DOMAIN players' \ DOMAIN players)
                       IN  last'.draws = <<read>> /\ rng' = Skip(rng, read)]_vars

\* the first batter of a side with an empty lineup: a generated player,
\* for whom 32 draws were read
C28_Witness ==
    /\ last.op = "tick"
    /\ panicked = ""
    /\ games_today[1].last_update.kind = "batting for"
    /\ games_today[1].at_bat # None
    /\ games_today[1].at_bat[1] \notin DOMAIN LeaguePlayers
    /\ games_today[1].home.pitcher # None
    /\ games_today[1].balls = 0
    /\ last.draws = <<GENERATE_DRAWS>>
    /\ rng = Skip(New(TestState), GENERATE_DRAWS)

\* The checks of next_in_order! on one empty slot: `new` is the slot
\* afterwards, `roster`, `cursor` the team's order and cursor before,
\* `roster2`, `cursor2` after.
ResolvedInOrder(new, roster, cursor, roster2, cursor2) ==
    /\ new # None
    /\ CASE 0 <= cursor /\ cursor < Len(roster) ->
                new[1] = roster[cursor + 1] /\ roster2 = roster
         [] (cursor < 0 \/ cursor >= Len(roster)) /\ roster # <<>> ->
                new[1] = roster[1] /\ roster2 = roster
         [] OTHER -> /\ new[1] \notin DOMAIN players
                     /\ new[1] \in DOMAIN players'
                     /\ roster2 = <<new[1]>>
    /\ cursor2 < Len(roster2)
    /\ roster2[cursor2 + 1] = new[1]
    /\ \A k \in 1..cursor2 : roster2[k] # new[1]

\* C29: a tick with no pitcher (or batter) resolves roster[cursor], or
\* roster[0] when the cursor is past the end of a non-empty roster, or else a
\* new placeholder player that is inserted into the players and appended to
\* the roster; afterwards the cursor is the index of that player.  An
\* occupied slot keeps its player, and its roster and cursor are not touched
\* by the resolution (a pitch that ends the turn at bat moves lineup_slot).
\* (Stated for the ticks of a game whose teams no other game ticked in the
\* same call names, so that the teams before the call are the teams the game
\* finds.)
C29_NextInOrder ==
    [][\A i \in 1..Len(games_today) :
          LET g == games_today[i]
              h == games_today'[i]
              bat == Batting(g.inning)
              fld == Fielding(g.inning)
              bt == teams[g[bat].id]
              ft == teams[g[fld].id]
              bt2 == teams'[g[bat].id]
              ft2 == teams'[g[fld].id]
          IN  (/\ Ticked(i)
               /\ \A j \in Range(last'.visited) \ {i} :
                     TeamsNamed(games_today[j]) \cap TeamsNamed(g) = {}
               /\ g.inning.frame \in {"Top", "Bottom"}
               /\ g.inning # DefaultInning)
              => /\ IF g[fld].pitcher = None
                    THEN ResolvedInOrder(h[fld].pitcher, ft.rotation, ft.rotation_slot,
                                         ft2.rotation, ft2.rotation_slot)
                    ELSE /\ h[fld].pitcher = g[fld].pitcher
                         /\ ft2.rotation = ft.rotation
                         /\ ft2.rotation_slot = ft.rotation_slot
                 /\ IF g.at_bat = None
                    THEN ResolvedInOrder(h.at_bat, bt.lineup, g[bat].lineup_slot,
                                         bt2.lineup, h[bat].lineup_slot)
                    ELSE /\ h.at_bat \in {g.at_bat, None}
                         /\ bt2.lineup = bt.lineup
                         /\ h.at_bat = g.at_bat => h[bat].lineup_slot = g[bat].lineup_slot
                         /\ Len(last'.visited) = 1
                            => DOMAIN players' \ DOMAIN players \subseteq Range(ft2.rotation)]_vars

\* two games of one day have resolved their pitchers and batters in one
\* call: the first a new placeholder player for the team without players
\* and the first pitcher of the other, the second the first players of the
\* rosters of a team that plays itself
C29_Witness ==
    /\ Len(games_today) = 2
    /\ last.op = "tick"
    /\ panicked = ""
    /\ last.visited = <<1, 2>>
    /\ games_today[1].last_update.kind = "batting for"
    /\ games_today[2].last_update.kind = "batting for"
    /\ teams[3].lineup = games_today[1].at_bat
    /\ games_today[1].at_bat[1] \notin DOMAIN LeaguePlayers
    /\ games_today[1].home.pitcher = Some(LeagueTeams[1].rotation[1])
    /\ games_today[2].at_bat = Some(LeagueTeams[2].lineup[1])
    /\ games_today[2].home.pitcher = Some(LeagueTeams[2].rotation[1])

----------------------------------------------------------------------------
\* Two simulations (SpecTwin): a second Sim with an equal store and a
\* generator in the same state is ticked whenever the first is.  Each reads
\* its own generator and its own store; PlayerId::new gives the second other
\* ids than the first.  The thresholds of the rolls are computed from the
\* date and the attributes of the players, which are equal in equal stores
\* and are read from the generator for a generated player, so that a
\* comparison of equal draws falls the same way in both.

MaxTicksTwin == 5

\* The name of a player in an update: a generated player is a machine.
PlayerName(id) == IF id \in DOMAIN LeaguePlayers THEN <<"player", id>> ELSE <<"machine">>

\* What is compared of a game
Shown(game) ==
    [inning |-> game.inning, balls |-> game.balls, strikes |-> game.strikes,
     outs |-> game.outs, runs |-> <<game.away.runs, game.home.runs>>,
     bases |-> [k \in 1..Len(game.baserunners) |-> game.baserunners[k][2]],
     cursors |-> <<game.away.lineup_slot, game.home.lineup_slot>>,
     winner |-> game.winner,
     update |-> [kind |-> game.last_update.kind,
                 who |-> PlayerName(game.last_update.who),
                 n |-> IF game.last_update.kind \in {"flyout", "ground out"}
                       THEN PlayerName(game.last_update.n)
                       ELSE <<"n", game.last_update.n>>]]

\* What is compared of a simulation after a tick
Observed(games, ts, gen, draws, panic) ==
    [games |-> [i \in 1..Len(games) |-> Shown(games[i])],
     cursors |-> [t \in DOMAIN ts |-> ts[t].rotation_slot],
     rng |-> gen, draws |-> draws, panic |-> panic]

\* The two simulations are in the same position before a tick: every
\* comparison of the tick is then of equal draws with equal thresholds.
Alike ==
    Observed(games_today, teams, rng, <<>>, panicked)
        = Observed(twin.games, twin.teams, twin.rng, <<>>, twin.panicked)

\* Sim::tick on both simulations.  The comparisons of the second fall as
\* those of the first while the two are alike, and any way otherwise.
TwinTick ==
    \E rolls \in RollsFor(games_today) :
        /\ TickOn(rolls)
        /\ IF twin.panicked # "" THEN twin' = twin
           ELSE \E other \in RollsFor(twin.games) :
                   /\ Alike => other = rolls
                   /\ twin' =
                         LET After(st) ==
                                 [games |-> st.games, teams |-> st.teams,
                                  players |-> st.players, rng |-> st.rng, draws |-> st.draws,
                                  panicked |-> IF st.panic # "" THEN st.panic
                                               ELSE DebugCheck(Database(st.players, st.teams,
                                                                        date, st.games))]
                         IN  After(TickGames(1, TickStart(twin.games, twin.teams,
                                                          twin.players, twin.rng,
                                                          MaxPlayerId), other))

\* The starts of the two simulations: a team of generated players against
\* itself and against a team with a lineup of two, a game with two out, a
\* game that is over at its next tick, and the bases loaded with a steal and
\* with a runner caught.
TwinStarts ==
    {[games |-> <<g>>, state |-> TestState]
        : g \in {GameNew(1, 3, 3), GameNew(1, 3, 1), TwoOut(1, 1, 2),
                 InProgress(1, 1, 2, "Mid", LAST_INNING, 0, MaxStartRuns)}}
    \cup {[games |-> <<Loaded(1, 1, 2)>>, state |-> s] : s \in {StealState, CaughtState}}

InitTwin ==
    /\ players = LeaguePlayers
    /\ teams = LeagueTeams
    /\ date = 0
    /\ \E start \in TwinStarts : games_today = start.games /\ rng = New(start.state)
    /\ last = Call("start_day", TRUE)
    /\ panicked = ""
    /\ calls_left = MaxTicksTwin
    /\ seed = None
    /\ twin = [games |-> games_today, teams |-> teams, players |-> players, rng |-> rng,
               draws |-> <<>>, panicked |-> ""]

SpecTwin == InitTwin /\ [][TwinTick]_vars

----------------------------------------------------------------------------
\* Outs, bases, stores and runs.

\* C31: a tick whose event is a flyout or a ground out registers an out:
\* outs goes up by one, or, at the third out, the half-inning ends with
\* balls, strikes and outs at 0 and the bases empty.
C31_BattedOut ==
    [][\A i \in 1..Len(games_today) :
          LET g == games_today[i]
              h == games_today'[i]
          IN  (Ticked(i) /\ h.last_update.kind \in {"flyout", "ground out"})
              => IF g.outs + 1 >= OUTS_NEEDED
                 THEN /\ h.inning = Advance(g.inning).inning
                      /\ h.balls = 0 /\ h.strikes = 0 /\ h.outs = 0
                      /\ h.baserunners = <<>>
                 ELSE h.outs = g.outs + 1]_vars

\* C32: every baserunner is on first, second or third base: a runner who
\* reaches HOME_BASE is taken off the bases.
C32_BasesInField ==
    \A i \in 1..Len(games_today) :
       \A k \in 1..Len(games_today[i].baserunners) :
          games_today[i].baserunners[k][2] \in 1..(HOME_BASE - 1)

\* C33: in every game between teams with a lineup, no player is on the
\* bases twice and the current batter is not on the bases.
C33_RunnersDistinct ==
    \A i \in 1..Len(games_today) :
       LET g == games_today[i]
           ids == [k \in 1..Len(g.baserunners) |-> g.baserunners[k][1]]
       IN  (teams[g.away.id].lineup # <<>> /\ teams[g.home.id].lineup # <<>>)
           => /\ Cardinality(Range(ids)) = Len(ids)
              /\ Range(g.at_bat) \cap Range(ids) = {}

----------------------------------------------------------------------------
\* A season (SpecSeason): a Sim that holds the league, with no day or with a
\* day in progress, to which players and teams are added and in which days
\* are started and ticked.

MaxCallsSeason == 5

\* The days that are in progress when the season starts.
SeasonStarts ==
    {[games |-> <<>>, state |-> TestState],
     [games |-> <<Loaded(1, 1, 2)>>, state |-> StealState],
     [games |-> <<GameNew(1, 3, 3)>>, state |-> TestState]}

InitSeason ==
    /\ players = LeaguePlayers
    /\ teams = LeagueTeams
    /\ date = 0
    /\ \E start \in SeasonStarts : games_today = start.games /\ rng = New(start.state)
    /\ last = Call("start_day", TRUE)
    /\ panicked = ""
    /\ calls_left = MaxCallsSeason
    /\ seed = None
    /\ twin = None

\* The calls of the season.  add_player: a player with a nil id, and a new
\* player.  add_team: a new team, a new team of the new player, and a team
\* of the league that now lists a player twice.  start_day: days of one new
\* game, against the team without players and of the new team.
NextSeason ==
    LET player == MaxLeagueId + 1
        team == Max(DOMAIN LeagueTeams) + 1
    IN  \/ \E p \in {Player(NilId), Player(player)} : AddPlayer(p)
        \/ \E t \in {Team(team, <<>>, <<>>, <<>>, 0),
                      Team(team, <<player>>, <<>>, <<>>, 0),
                      Team(1, <<1, 1>>, <<>>, <<>>, 0)} : AddTeam(t)
        \/ \E d \in Dates, games \in {<<GameNew(1, 1, 3)>>, <<GameNew(1, team, 1)>>} :
              StartDay(d, games)
        \/ Tick

SpecSeason == InitSeason /\ [][NextSeason]_vars

\* C34: no call removes a player or a team: across every add_player,
\* add_team, start_day and tick, whether it returns, is rejected or panics,
\* the key sets of the player map and of the team map only grow, so an id
\* that passed a reference check still loads.
C34_StoresGrow ==
    [][/\ DOMAIN players \subseteq DOMAIN players'
       /\ DOMAIN teams \subseteq DOMAIN teams']_vars

\* A tick has generated a placeholder player into a store that holds the
\* players of the league and a player added since, and every team is still
\* there.
C34_Witness ==
    /\ last.op = "tick"
    /\ DOMAIN LeaguePlayers \subseteq DOMAIN players
    /\ Max(DOMAIN LeaguePlayers) + 1 \in DOMAIN players
    /\ \E new \in DOMAIN players : new > Max(DOMAIN LeaguePlayers) + 1
    /\ DOMAIN LeagueTeams \subseteq DOMAIN teams

----------------------------------------------------------------------------
\* Runs (SpecRuns): games with a runner on third, the batting side's total
\* at 0 or one below the width of a u16, and a game that is over at its next
\* tick.

\* The game of TwoOut after a walk of the first batter and a double of the
\* second, handed to start_day with away_runs runs for the away side.
OnThird(id, away, home, away_runs) ==
    LET lineup == LeagueTeams[away].lineup
    IN  [TwoOut(id, away, home) EXCEPT
            !.away = [id |-> away, runs |-> away_runs, pitcher |-> None, lineup_slot |-> 1],
            !.home = [id |-> home, runs |-> 0,
                      pitcher |-> Some(LeagueTeams[home].rotation[1]), lineup_slot |-> 0],
            !.at_bat = Some(lineup[2]),
            !.balls = BALLS_NEEDED,
            !.baserunners = <<<<lineup[1], HOME_BASE - 1>>>>,
            !.last_update = Update("hits", lineup[2], 2)]

RunsDays ==
    {<<OnThird(1, 1, 2, 0)>>, <<OnThird(1, 1, 2, U16_MAX - 1)>>, <<OnThird(1, 1, 2, U16_MAX)>>,
     <<InProgress(1, 1, 2, "Mid", LAST_INNING, 0, MaxStartRuns)>>}

InitRuns ==
    /\ players = LeaguePlayers
    /\ teams = LeagueTeams
    /\ date = 0
    /\ games_today \in RunsDays
    /\ last = Call("start_day", TRUE)
    /\ panicked = ""
    /\ calls_left = MaxTicksRuns
    /\ rng = New(TestState)
    /\ seed = None
    /\ twin = None

SpecRuns == InitRuns /\ [][Tick]_vars

\* C35: a tick never lowers a side's runs and never changes the runs of the
\* side that is fielding when the tick starts; a Mid or End tick, a tick
\* that announces a batter and the tick that ends the game change no runs.
\* (A run total is a u16: the run that follows 65535 overflows it, and the
\* tick panics and leaves a game with no runs.)
C35_RunsFrame ==
    [][\A i \in 1..Len(games_today) :
          LET g == games_today[i]
              h == games_today'[i]
              fld == Fielding(g.inning)
              same == h.away.runs = g.away.runs /\ h.home.runs = g.home.runs
          IN  /\ h.away.runs >= g.away.runs
              /\ h.home.runs >= g.home.runs
              /\ Ticked(i)
                 => /\ h[fld].runs = g[fld].runs
                    /\ g.inning.frame \in {"Mid", "End"} => same
                    /\ h.last_update.kind = "batting for" => same
                    /\ IsFinished(h) => same]_vars

============================================================================
